---------------------------- MODULE Spec2Model ----------------------------
(***************************************************************************)
(* Model of aiapp_scanner.py: the identity anonymizer                      *)
(* (_anonymize_identifier, _anonymize_hostname, _sanitize_paths_in_output),*)
(* the four evidence probes and the orchestrator AIAppScanner.scan().      *)
(*                                                                         *)
(* A Python str is a sequence of one-character strings, so that slicing,   *)
(* strip(), lower(), "in" and replace() are computed as Python computes    *)
(* them.  hashlib.md5 is computed by the RFC 1321 algorithm on 32-bit      *)
(* words kept as <<high 16 bits, low 16 bits>>.                            *)
(***************************************************************************)
EXTENDS Integers, Sequences, FiniteSets, TLC

(***************************************************************************)
(* Characters and str primitives                                           *)
(***************************************************************************)

\* The printable ASCII characters with code points 32..95 and 97..126.
AsciiLow ==
  << " ", "!", "\"", "#", "$", "%", "&", "'", "(", ")", "*", "+", ",", "-", ".", "/",
     "0", "1", "2", "3", "4", "5", "6", "7", "8", "9", ":", ";", "<", "=", ">", "?",
     "@", "A", "B", "C", "D", "E", "F", "G", "H", "I", "J", "K", "L", "M", "N", "O",
     "P", "Q", "R", "S", "T", "U", "V", "W", "X", "Y", "Z", "[", "\\", "]", "^", "_" >>

AsciiHigh ==
  << "a", "b", "c", "d", "e", "f", "g", "h", "i", "j", "k", "l", "m", "n", "o",
     "p", "q", "r", "s", "t", "u", "v", "w", "x", "y", "z", "{", "|", "}", "~" >>

\* ord(c): the code point of a character (tab and newline are the control
\* characters the model uses).
Ord(c) ==
  IF c = "\t" THEN 9
  ELSE IF c = "\n" THEN 10
  ELSE IF \E i \in 1..Len(AsciiLow) : AsciiLow[i] = c
       THEN 31 + (CHOOSE i \in 1..Len(AsciiLow) : AsciiLow[i] = c)
       ELSE 96 + (CHOOSE i \in 1..Len(AsciiHigh) : AsciiHigh[i] = c)

\* chr(n) for the code points Ord covers.
Chr(n) ==
  IF n = 9 THEN "\t"
  ELSE IF n = 10 THEN "\n"
  ELSE IF n <= 95 THEN AsciiLow[n - 31] ELSE AsciiHigh[n - 96]

\* str.isspace() on one character.
IsSpace(c) == c \in {" ", "\t", "\n"}

\* s[i:j] with 0-based, end-exclusive, clamped indices, as a Python slice.
Slice(s, i, j) ==
  LET lo == IF i < 0 THEN 0 ELSE i
      hi == IF j > Len(s) THEN Len(s) ELSE j
  IN  IF hi <= lo THEN << >> ELSE SubSeq(s, lo + 1, hi)

\* s.startswith(p)
StartsWith(s, p) == Len(p) <= Len(s) /\ SubSeq(s, 1, Len(p)) = p

\* s.endswith(p)
EndsWith(s, p) ==
  Len(p) <= Len(s) /\ SubSeq(s, Len(s) - Len(p) + 1, Len(s)) = p

\* s.find(sub, start): the lowest 0-based index >= start where sub occurs, or -1.
Find(s, sub, start) ==
  LET hits == { i \in start..(Len(s) - Len(sub)) : SubSeq(s, i + 1, i + Len(sub)) = sub }
  IN  IF hits = {} THEN -1 ELSE CHOOSE i \in hits : \A j \in hits : i <= j

\* sub in s
Contains(s, sub) == Find(s, sub, 0) >= 0

\* s.lower() (ASCII letters; every other character is kept).
LowerChar(c) ==
  IF c \in {"\t", "\n"} THEN c
  ELSE IF Ord(c) >= 65 /\ Ord(c) <= 90 THEN Chr(Ord(c) + 32) ELSE c

Lower(s) == [i \in 1..Len(s) |-> LowerChar(s[i])]

\* s.lstrip(): drop leading whitespace.
RECURSIVE LStrip(_)
LStrip(s) ==
  IF s # << >> /\ IsSpace(Head(s)) THEN LStrip(Tail(s)) ELSE s

\* s.rstrip(chars): drop trailing characters that are members of the set chars.
RECURSIVE RStripChars(_, _)
RStripChars(s, chars) ==
  IF s # << >> /\ s[Len(s)] \in chars
  THEN RStripChars(SubSeq(s, 1, Len(s) - 1), chars)
  ELSE s

\* s.strip(): drop leading and trailing whitespace.
Strip(s) == RStripChars(LStrip(s), {" ", "\t", "\n"})

\* s.replace(old, new): every non-overlapping occurrence, scanning left to
\* right; an empty old matches before every character and at the end.
RECURSIVE ReplaceFrom(_, _, _)
ReplaceFrom(s, old, new) ==
  IF old = << >>
  THEN IF s = << >> THEN new ELSE new \o <<Head(s)>> \o ReplaceFrom(Tail(s), old, new)
  ELSE LET i == Find(s, old, 0)
       IN  IF i < 0 THEN s
           ELSE SubSeq(s, 1, i) \o new
                  \o ReplaceFrom(SubSeq(s, i + Len(old) + 1, Len(s)), old, new)

Replace(s, old, new) == ReplaceFrom(s, old, new)

(***************************************************************************)
(* hashlib.md5(value.encode('utf-8')).hexdigest()                          *)
(***************************************************************************)

\* value.encode('utf-8'): one byte per ASCII character.
Utf8(s) == [i \in 1..Len(s) |-> Ord(s[i])]

RECURSIVE Pow2(_)
Pow2(n) == IF n = 0 THEN 1 ELSE 2 * Pow2(n - 1)

\* Bitwise operations on 16-bit halves.
RECURSIVE And16(_, _)
And16(a, b) ==
  IF a = 0 \/ b = 0 THEN 0
  ELSE (a % 2) * (b % 2) + 2 * And16(a \div 2, b \div 2)

RECURSIVE Xor16(_, _)
Xor16(a, b) ==
  IF a = 0 THEN b ELSE IF b = 0 THEN a
  ELSE ((a + b) % 2) + 2 * Xor16(a \div 2, b \div 2)

\* 32-bit words <<hi, lo>>.
WAnd(x, y) == << And16(x[1], y[1]), And16(x[2], y[2]) >>
WOr(x, y)  == << x[1] + y[1] - And16(x[1], y[1]), x[2] + y[2] - And16(x[2], y[2]) >>
WXor(x, y) == << Xor16(x[1], y[1]), Xor16(x[2], y[2]) >>
WNot(x)    == << 65535 - x[1], 65535 - x[2] >>

\* Addition modulo 2^32.
WAdd(x, y) ==
  LET lo == x[2] + y[2]
      hi == x[1] + y[1] + (lo \div 65536)
  IN  << hi % 65536, lo % 65536 >>

\* Left rotation of a 32-bit word by n bits, 0 < n < 32.
WRotl(x, n) ==
  LET y == IF n >= 16 THEN << x[2], x[1] >> ELSE x
      k == n % 16
      p == Pow2(k)
      q == Pow2(16 - k)
  IN  IF k = 0 THEN y
      ELSE << ((y[1] * p) % 65536) + (y[2] \div q),
              ((y[2] * p) % 65536) + (y[1] \div q) >>

\* K[i] = floor(2^32 * abs(sin(i + 1))), i = 0..63 (1-based here).
MD5_K ==
  <<  <<55146, 42104>>, <<59591, 46934>>, <<9248, 28891>>, <<49597, 52974>>,
      <<62844, 4015>>, <<18311, 50730>>, <<43056, 17939>>, <<64838, 38145>>,
      <<27008, 39128>>, <<35652, 63407>>, <<65535, 23473>>, <<35164, 55230>>,
      <<27536, 4386>>, <<64920, 29075>>, <<42617, 17294>>, <<18868, 2081>>,
      <<63006, 9570>>, <<49216, 45888>>, <<9822, 23121>>, <<59830, 51114>>,
      <<54831, 4189>>, <<580, 5203>>, <<55457, 59009>>, <<59347, 64456>>,
      <<8673, 52710>>, <<49975, 2006>>, <<62677, 3463>>, <<17754, 5357>>,
      <<43491, 59653>>, <<64751, 41976>>, <<26479, 729>>, <<36138, 19594>>,
      <<65530, 14658>>, <<34673, 63105>>, <<28061, 24866>>, <<64997, 14348>>,
      <<42174, 59972>>, <<19422, 53161>>, <<63163, 19296>>, <<48831, 48240>>,
      <<10395, 32454>>, <<60065, 10234>>, <<54511, 12421>>, <<1160, 7429>>,
      <<55764, 53305>>, <<59099, 39397>>, <<8098, 31992>>, <<50348, 22117>>,
      <<62505, 8772>>, <<17194, 65431>>, <<43924, 9127>>, <<64659, 41017>>,
      <<25947, 22979>>, <<36620, 52370>>, <<65519, 62589>>, <<34180, 24017>>,
      <<28584, 32335>>, <<65068, 59104>>, <<41729, 17172>>, <<19976, 4513>>,
      <<63315, 32386>>, <<48442, 62005>>, <<10967, 53947>>, <<60294, 54161>> >>

\* Per-round shift amounts.
MD5_S ==
  << 7, 12, 17, 22, 7, 12, 17, 22, 7, 12, 17, 22, 7, 12, 17, 22,
     5, 9, 14, 20, 5, 9, 14, 20, 5, 9, 14, 20, 5, 9, 14, 20,
     4, 11, 16, 23, 4, 11, 16, 23, 4, 11, 16, 23, 4, 11, 16, 23,
     6, 10, 15, 21, 6, 10, 15, 21, 6, 10, 15, 21, 6, 10, 15, 21 >>

\* The initial chaining value A, B, C, D.
MD5_IV ==
  << <<26437, 8961>>, <<61389, 43913>>, <<39098, 56574>>, <<4146, 21622>> >>

\* The padded message: the bytes, 0x80, zeros up to 56 mod 64, then the bit
\* length as a 64-bit little-endian integer (messages shorter than 2^13 bytes).
MD5Pad(bytes) ==
  LET n     == Len(bytes)
      zeros == (119 - n) % 64
      bits  == 8 * n
  IN  bytes \o <<128>> \o [i \in 1..zeros |-> 0]
        \o << bits % 256, (bits \div 256) % 256, 0, 0, 0, 0, 0, 0 >>

\* Little-endian word j (0..15) of the 64-byte block starting at byte offset off.
MD5Word(m, off, j) ==
  LET b == off + 4 * j
  IN  << m[b + 4] * 256 + m[b + 3], m[b + 2] * 256 + m[b + 1] >>

\* One of the 64 steps (i = 0..63) on the working state st = <<a, b, c, d>>.
MD5Step(st, i, m, off) ==
  LET a == st[1]
      b == st[2]
      c == st[3]
      d == st[4]
      f == IF i < 16 THEN WOr(WAnd(b, c), WAnd(WNot(b), d))
           ELSE IF i < 32 THEN WOr(WAnd(d, b), WAnd(WNot(d), c))
           ELSE IF i < 48 THEN WXor(WXor(b, c), d)
           ELSE WXor(c, WOr(b, WNot(d)))
      g == IF i < 16 THEN i
           ELSE IF i < 32 THEN (5 * i + 1) % 16
           ELSE IF i < 48 THEN (3 * i + 5) % 16
           ELSE (7 * i) % 16
      t == WAdd(WAdd(a, f), WAdd(MD5_K[i + 1], MD5Word(m, off, g)))
  IN  << d, WAdd(b, WRotl(t, MD5_S[i + 1])), b, c >>

\* The steps i..j-1 in order, halving the range.
RECURSIVE MD5Steps(_, _, _, _, _)
MD5Steps(st, i, j, m, off) ==
  IF j = i + 1 THEN MD5Step(st, i, m, off)
  ELSE LET mid  == (i + j) \div 2
           half == MD5Steps(st, i, mid, m, off)
       IN  IF Len(half) = 4 THEN MD5Steps(half, mid, j, m, off) ELSE half

\* All 64-byte blocks from offset off on, chaining value h.
RECURSIVE MD5Blocks(_, _, _)
MD5Blocks(h, m, off) ==
  IF off >= Len(m) THEN h
  ELSE LET st == MD5Steps(h, 0, 64, m, off)
       IN  MD5Blocks(<< WAdd(h[1], st[1]), WAdd(h[2], st[2]),
                        WAdd(h[3], st[3]), WAdd(h[4], st[4]) >>, m, off + 64)

HexDigits ==
  << "0", "1", "2", "3", "4", "5", "6", "7", "8", "9", "a", "b", "c", "d", "e", "f" >>

HexByte(b) == << HexDigits[(b \div 16) + 1], HexDigits[(b % 16) + 1] >>

\* The 8 lowercase hex characters of one state word, bytes in little-endian order.
HexWord(w) ==
  HexByte(w[2] % 256) \o HexByte(w[2] \div 256)
    \o HexByte(w[1] % 256) \o HexByte(w[1] \div 256)

\* hashlib.md5(bytes).hexdigest(): 32 lowercase hex characters.
MD5Hex(bytes) ==
  LET h == MD5Blocks(MD5_IV, MD5Pad(bytes), 0)
  IN  HexWord(h[1]) \o HexWord(h[2]) \o HexWord(h[3]) \o HexWord(h[4])

(***************************************************************************)
(* String literals of the source                                           *)
(***************************************************************************)

L_unknown == << "u", "n", "k", "n", "o", "w", "n" >>
L_dot_local == << ".", "l", "o", "c", "a", "l" >>
L_Users == << "/", "U", "s", "e", "r", "s", "/" >>

(***************************************************************************)
(* Identity anonymizer                                                     *)
(***************************************************************************)

\* The number of leading characters of the value kept in the pseudonym.
PrefixLen == 4

\* The number of trailing hex characters of the digest kept in the pseudonym.
DigestLen == 8

\* digest[-8:]
DigestSuffix(value) ==
  LET digest == MD5Hex(Utf8(value))
  IN  SubSeq(digest, Len(digest) - DigestLen + 1, Len(digest))

\* Mutant: the pseudonym ends with the first 8 hex characters of the digest.
AnonymizeIdentifier_DigestHead(value) ==
  LET v0     == IF value = << >> \/ Strip(value) = << >> THEN L_unknown ELSE value
      v      == Strip(v0)
      prefix == IF Len(v) >= PrefixLen THEN Slice(v, 0, PrefixLen) ELSE v
  IN  prefix \o SubSeq(MD5Hex(Utf8(v)), 1, DigestLen)

\* Mutant: the value is not stripped before the prefix and the digest are taken.
AnonymizeIdentifier_NoStrip(value) ==
  LET v      == IF value = << >> \/ Strip(value) = << >> THEN L_unknown ELSE value
      prefix == IF Len(v) >= PrefixLen THEN Slice(v, 0, PrefixLen) ELSE v
  IN  prefix \o DigestSuffix(v)

\* _anonymize_identifier(value): first 4 chars + last 8 of MD5.
AnonymizeIdentifier(value) ==
  LET v0     == IF value = << >> \/ Strip(value) = << >> THEN L_unknown ELSE value
      v      == Strip(v0)
      prefix == IF Len(v) >= PrefixLen THEN Slice(v, 0, PrefixLen) ELSE v
  IN  prefix \o DigestSuffix(v)

\* _anonymize_hostname(hostname): hostname.lower().rstrip('.local') when the
\* lowercased hostname ends with '.local'; str.rstrip takes a set of characters.
AnonymizeHostname(hostname) ==
  IF hostname = << >> THEN AnonymizeIdentifier(L_unknown)
  ELSE LET base == IF EndsWith(Lower(hostname), L_dot_local)
                   THEN RStripChars(Lower(hostname), {".", "l", "o", "c", "a"})
                   ELSE hostname
       IN  AnonymizeIdentifier(base)

(***************************************************************************)
(* Report values: a Python value is a tagged node                          *)
(*   str  -> [t |-> "str",  v |-> sequence of characters]                  *)
(*   list -> [t |-> "list", v |-> sequence of nodes]                       *)
(*   dict -> [t |-> "dict", v |-> function from keys to nodes]             *)
(*   int, bool -> [t |-> "int" or "bool", v |-> the value]                 *)
(***************************************************************************)

StrV(s)  == [t |-> "str", v |-> s]
ListV(l) == [t |-> "list", v |-> l]
DictV(d) == [t |-> "dict", v |-> d]
IntV(n)  == [t |-> "int", v |-> n]
BoolV(b) == [t |-> "bool", v |-> b]

\* Python's None.
NoneV == [t |-> "none", v |-> 0]

\* A variant of _sanitize_paths_in_output that deletes the dict items whose
\* str value contains real_home instead of replacing the value.
RECURSIVE SanitizePathsInOutput_DeletesItems(_, _, _)
SanitizePathsInOutput_DeletesItems(obj, real, anon) ==
  LET hit(c) == c.t = "str" /\ Contains(c.v, real)
      child(c) == IF hit(c)
                  THEN StrV(Replace(c.v, real, anon))
                  ELSE SanitizePathsInOutput_DeletesItems(c, real, anon)
  IN  IF obj.t = "dict"
      THEN DictV([k \in { j \in DOMAIN obj.v : ~hit(obj.v[j]) } |-> child(obj.v[k])])
      ELSE IF obj.t = "list"
      THEN ListV([i \in 1..Len(obj.v) |-> child(obj.v[i])])
      ELSE obj

\* _sanitize_paths_in_output(obj, real_home, anonymized_home): the value obj
\* holds after the in-place walk.  A str child containing real_home is
\* replaced; every other child is walked; a str, int or bool is left as it is.
RECURSIVE SanitizePathsInOutput(_, _, _)
SanitizePathsInOutput(obj, real, anon) ==
  LET child(c) == IF c.t = "str" /\ Contains(c.v, real)
                  THEN StrV(Replace(c.v, real, anon))
                  ELSE SanitizePathsInOutput(c, real, anon)
  IN  IF obj.t = "dict"
      THEN DictV([k \in DOMAIN obj.v |-> child(obj.v[k])])
      ELSE IF obj.t = "list"
      THEN ListV([i \in 1..Len(obj.v) |-> child(obj.v[i])])
      ELSE obj

(***************************************************************************)
(* os.path and the filesystem                                              *)
(***************************************************************************)

\* Exception type names (type(e).__name__); << >> stands for no exception.
NoError == << >>
E_PermissionError == << "P", "e", "r", "m", "i", "s", "s", "i", "o", "n", "E", "r", "r", "o", "r" >>
E_FileNotFoundError == << "F", "i", "l", "e", "N", "o", "t", "F", "o", "u", "n", "d", "E", "r", "r", "o", "r" >>
E_NotADirectoryError == << "N", "o", "t", "A", "D", "i", "r", "e", "c", "t", "o", "r", "y", "E", "r", "r", "o", "r" >>
E_OSError == << "O", "S", "E", "r", "r", "o", "r" >>
E_TimeoutExpired == << "T", "i", "m", "e", "o", "u", "t", "E", "x", "p", "i", "r", "e", "d" >>
E_JSONDecodeError == << "J", "S", "O", "N", "D", "e", "c", "o", "d", "e", "E", "r", "r", "o", "r" >>
E_UnicodeDecodeError == << "U", "n", "i", "c", "o", "d", "e", "D", "e", "c", "o", "d", "e", "E", "r", "r", "o", "r" >>
E_AttributeError == << "A", "t", "t", "r", "i", "b", "u", "t", "e", "E", "r", "r", "o", "r" >>
E_TypeError == << "T", "y", "p", "e", "E", "r", "r", "o", "r" >>

\* The exceptions that are subclasses of OSError.
IsOSError(e) ==
  e \in { E_OSError, E_PermissionError, E_FileNotFoundError, E_NotADirectoryError }

\* posixpath.expanduser(path) with HOME = home: a leading "~" alone or
\* followed by "/" is replaced by home without its trailing slashes; "~name"
\* names no user of the host and is returned as it is.
ExpandUser(path, home) ==
  IF ~StartsWith(path, << "~" >>) THEN path
  ELSE LET f == Find(path, << "/" >>, 1)
           i == IF f < 0 THEN Len(path) ELSE f
       IN  IF i # 1 THEN path
           ELSE LET r == RStripChars(home, { "/" }) \o Slice(path, i, Len(path))
                IN  IF r = << >> THEN << "/" >> ELSE r

\* posixpath.join(a, b)
Join(a, b) ==
  IF StartsWith(b, << "/" >>) THEN b
  ELSE IF a = << >> \/ EndsWith(a, << "/" >>) THEN a \o b
  ELSE a \o << "/" >> \o b

\* s.rfind("/") + 1: the length of the part of s up to its last slash.
RECURSIVE AfterLastSlash(_)
AfterLastSlash(s) ==
  IF s = << >> \/ s[Len(s)] = "/" THEN Len(s)
  ELSE AfterLastSlash(SubSeq(s, 1, Len(s) - 1))

\* posixpath.dirname(p)
Dirname(p) ==
  LET head == Slice(p, 0, AfterLastSlash(p))
  IN  IF head # << >> /\ RStripChars(head, { "/" }) # << >>
      THEN RStripChars(head, { "/" })
      ELSE head

\* What the filesystem holds at one path.  kind is "missing", "file" or "dir";
\* err is the exception that reading it raises (os.listdir of a directory,
\* os.stat or open-and-parse of a file), or NoError; entries is what
\* os.listdir returns, in its order; size and mtime are what os.stat reports
\* (mtime as datetime.fromtimestamp(st_mtime).isoformat() renders it); data is
\* the parsed content of a plist or JSON file.
PathState(kind, err, entries, size, mtime, data) ==
  [kind |-> kind, err |-> err, entries |-> entries, size |-> size,
   mtime |-> mtime, data |-> data]

L_mtime == << "2", "0", "2", "4", "-", "0", "5", "-", "0", "1", "T", "1", "0", ":", "0", "0", ":", "0", "0" >>

Missing == PathState("missing", NoError, << >>, 0, << >>, NoneV)
Dir(entries) == PathState("dir", NoError, entries, 0, << >>, NoneV)
DirErr(e) == PathState("dir", e, << >>, 0, << >>, NoneV)
File(size) == PathState("file", NoError, << >>, size, L_mtime, NoneV)
FileErr(e) == PathState("file", e, << >>, 0, << >>, NoneV)
FileData(d) == PathState("file", NoError, << >>, 0, L_mtime, d)

\* The state of path p in the filesystem fs (a function from paths).
Lookup(fs, p) == IF p \in DOMAIN fs THEN fs[p] ELSE Missing

\* os.path.exists, os.path.isdir, os.path.isfile
Exists(st) == st.kind # "missing"
IsDir(st) == st.kind = "dir"
IsFile(st) == st.kind = "file"

\* The exception os.listdir raises on st, or NoError: a file is not a
\* directory, a missing path is not found.
ListDirError(st) ==
  IF st.kind = "file" THEN E_NotADirectoryError
  ELSE IF st.kind = "missing" THEN E_FileNotFoundError
  ELSE st.err

\* dict.get(key, default) on a function with string keys.
Get(d, key, default) == IF key \in DOMAIN d THEN d[key] ELSE default

\* The outcome of a call: a returned value, or a raised exception.
Ok(v) == [exc |-> NoError, value |-> v]
Raise(e) == [exc |-> e, value |-> NoneV]

\* Mutant: the names in the order os.listdir returned them.
Sorted_AsListed(names) == names

\* Insertion sort of names in ascending lexicographic order of code points,
\* as sorted() orders str.
RECURSIVE StrLess(_, _)
StrLess(a, b) ==
  IF b = << >> THEN FALSE
  ELSE IF a = << >> THEN TRUE
  ELSE IF Head(a) = Head(b) THEN StrLess(Tail(a), Tail(b))
  ELSE Ord(Head(a)) < Ord(Head(b))

RECURSIVE Insert(_, _)
Insert(sorted, x) ==
  IF sorted = << >> THEN << x >>
  ELSE IF StrLess(x, Head(sorted)) THEN << x >> \o sorted
  ELSE << Head(sorted) >> \o Insert(Tail(sorted), x)

RECURSIVE Sorted(_)
Sorted(names) ==
  IF names = << >> THEN << >> ELSE Insert(Sorted(Tail(names)), Head(names))

(***************************************************************************)
(* ApplicationScanner                                                      *)
(***************************************************************************)

L_Info_plist == << "C", "o", "n", "t", "e", "n", "t", "s", "/", "I", "n", "f", "o", ".", "p", "l", "i", "s", "t" >>

\* ApplicationScanner.__init__: self.app_dirs
AppDirs(home) ==
  << << "/", "A", "p", "p", "l", "i", "c", "a", "t", "i", "o", "n", "s" >>, ExpandUser(<< "~", "/", "A", "p", "p", "l", "i", "c", "a", "t", "i", "o", "n", "s" >>, home), << "/", "S", "y", "s", "t", "e", "m", "/", "A", "p", "p", "l", "i", "c", "a", "t", "i", "o", "n", "s" >> >>

\* known_apps = {app['name']: app for app in applications}: the last entry of
\* a name wins.
KnownApps(applications) ==
  [ n \in { applications[i].name : i \in 1..Len(applications) } |->
      applications[CHOOSE i \in 1..Len(applications) :
                     /\ applications[i].name = n
                     /\ \A j \in 1..Len(applications) : applications[j].name = n => j <= i] ]

\* ApplicationScanner._get_app_info(app_path, known_info): None when the
\* bundle has no Info.plist or it cannot be opened or parsed.
GetAppInfo(fs, app_path, known_info) ==
  LET info_plist_path == Join(app_path, L_Info_plist)
      st == Lookup(fs, info_plist_path)
  IN  IF ~Exists(st) THEN NoneV
      ELSE IF st.kind # "file" \/ st.err # NoError THEN NoneV
      ELSE DictV([type |-> StrV(<< "a", "p", "p", "l", "i", "c", "a", "t", "i", "o", "n" >>),
                  name |-> StrV(known_info.name),
                  vendor |-> StrV(known_info.vendor),
                  version |-> Get(st.data, "CFBundleShortVersionString", StrV(L_unknown)),
                  bundle_version |-> Get(st.data, "CFBundleVersion", StrV(L_unknown)),
                  bundle_id |-> Get(st.data, "CFBundleIdentifier", StrV(L_unknown)),
                  path |-> StrV(app_path),
                  install_location |-> StrV(Dirname(app_path))])

\* The body of "for item in os.listdir(app_dir)": the records of the items
\* appended to found.
RECURSIVE AppItems(_, _, _, _, _)
AppItems(fs, known_apps, app_dir, items, found) ==
  IF items = << >> THEN found
  ELSE LET item == Head(items)
           app_info == IF EndsWith(item, << ".", "a", "p", "p" >>) /\ item \in DOMAIN known_apps
                       THEN GetAppInfo(fs, Join(app_dir, item), known_apps[item])
                       ELSE NoneV
       IN  AppItems(fs, known_apps, app_dir, Tail(items),
                    IF app_info.t # "none" THEN Append(found, app_info) ELSE found)

\* The body of "for app_dir in self.app_dirs": a missing directory and a
\* PermissionError are skipped, any other exception of os.listdir propagates.
RECURSIVE AppDirLoop(_, _, _, _)
AppDirLoop(fs, known_apps, app_dirs, found) ==
  IF app_dirs = << >> THEN Ok(ListV(found))
  ELSE LET app_dir == Head(app_dirs)
           st == Lookup(fs, app_dir)
       IN  IF ~Exists(st) THEN AppDirLoop(fs, known_apps, Tail(app_dirs), found)
           ELSE IF ListDirError(st) = E_PermissionError
           THEN AppDirLoop(fs, known_apps, Tail(app_dirs), found)
           ELSE IF ListDirError(st) # NoError THEN Raise(ListDirError(st))
           ELSE AppDirLoop(fs, known_apps, Tail(app_dirs),
                           AppItems(fs, known_apps, app_dir, st.entries, found))

\* ApplicationScanner.scan()
ApplicationScan(config, home, fs) ==
  AppDirLoop(fs, KnownApps(config.applications), AppDirs(home), << >>)

(***************************************************************************)
(* CLIToolScanner                                                          *)
(***************************************************************************)

L_permission_denied == << "p", "e", "r", "m", "i", "s", "s", "i", "o", "n", "_", "d", "e", "n", "i", "e", "d" >>

\* subprocess.run(..., timeout=5)
VersionTimeout == 5

\* version_output[:200]
VersionMaxLen == 200

\* sorted(files)[:20] in CLIToolScanner._check_config
CliFilesLimit == 20

\* What running a command does: launch is the exception raised when the
\* executable cannot be started (or NoError), seconds is how long it runs,
\* stdout and stderr are what it writes.
Process(launch, seconds, stdout, stderr) ==
  [launch |-> launch, seconds |-> seconds, stdout |-> stdout, stderr |-> stderr]

\* The exception subprocess.run(version_cmd, timeout=5) raises, or NoError.
SubprocessRunError(p) ==
  IF p.launch # NoError THEN p.launch
  ELSE IF p.seconds > VersionTimeout THEN E_TimeoutExpired
  ELSE NoError

\* CLIToolScanner._get_version(tool_config); procs maps a command (a sequence
\* of arguments) to what running it does, and a command it does not hold
\* cannot be started.
GetVersion(tool_config, procs) ==
  LET version_cmd == Get(tool_config, "version_cmd", << >>)
  IN  IF version_cmd = << >> THEN L_unknown
      ELSE LET p == IF version_cmd \in DOMAIN procs THEN procs[version_cmd]
                    ELSE Process(E_FileNotFoundError, 0, << >>, << >>)
               e == SubprocessRunError(p)
           IN  IF e # NoError THEN << "e", "r", "r", "o", "r", ":", " " >> \o e
               ELSE LET out1 == IF Strip(p.stdout) # << >> THEN Strip(p.stdout)
                                ELSE Strip(p.stderr)
                        out2 == Strip(Replace(out1, << "\n" >>, << " " >>))
                    IN  IF out2 # << >> THEN Slice(out2, 0, VersionMaxLen) ELSE L_unknown

\* The names as a list of str values.
StrList(names) == ListV([i \in 1..Len(names) |-> StrV(names[i])])

\* CLIToolScanner._check_config(config_paths), from the list configs on: a
\* missing path is left out, a PermissionError of os.listdir is recorded, any
\* other exception of os.listdir propagates; an exception of os.stat is passed over.
RECURSIVE CheckConfig(_, _, _, _)
CheckConfig(fs, home, config_paths, configs) ==
  IF config_paths = << >> THEN Ok(ListV(configs))
  ELSE LET expanded_path == ExpandUser(Head(config_paths), home)
           st == Lookup(fs, expanded_path)
           config_info == [path |-> StrV(expanded_path), exists |-> BoolV(TRUE)]
       IN  IF ~Exists(st) THEN CheckConfig(fs, home, Tail(config_paths), configs)
           ELSE IF IsDir(st)
           THEN IF st.err = NoError
                THEN CheckConfig(fs, home, Tail(config_paths),
                       Append(configs,
                         DictV(config_info
                               @@ [type |-> StrV(<< "d", "i", "r", "e", "c", "t", "o", "r", "y" >>),
                                   file_count |-> IntV(Len(st.entries)),
                                   files |-> StrList(Slice(Sorted(st.entries), 0, CliFilesLimit))])))
                ELSE IF st.err = E_PermissionError
                THEN CheckConfig(fs, home, Tail(config_paths),
                       Append(configs,
                         DictV(config_info @@ [error |-> StrV(L_permission_denied)])))
                ELSE Raise(st.err)
           ELSE IF st.err = NoError
                THEN CheckConfig(fs, home, Tail(config_paths),
                       Append(configs,
                         DictV(config_info
                               @@ [type |-> StrV(<< "f", "i", "l", "e" >>),
                                   size |-> IntV(st.size),
                                   modified |-> StrV(st.mtime)])))
                ELSE CheckConfig(fs, home, Tail(config_paths),
                       Append(configs, DictV(config_info @@ [type |-> StrV(<< "f", "i", "l", "e" >>)])))

\* CLIToolScanner._check_tool(tool_config): None when shutil.which finds
\* nothing (which maps a name to its path, and holds no unresolved name).
CheckTool(tool_config, home, fs, which, procs) ==
  LET tool_name == tool_config.name
      tool_path == Get(which, tool_name, << >>)
  IN  IF tool_path = << >> THEN Ok(NoneV)
      ELSE LET version == GetVersion(tool_config, procs)
               config_info == CheckConfig(fs, home, Get(tool_config, "config_paths", << >>), << >>)
           IN  IF config_info.exc # NoError THEN config_info
               ELSE Ok(DictV([type |-> StrV(<< "c", "l", "i", "_", "t", "o", "o", "l" >>),
                              name |-> StrV(tool_name),
                              vendor |-> StrV(tool_config.vendor),
                              path |-> StrV(tool_path),
                              version |-> StrV(version),
                              configurations |-> config_info.value]))

\* The body of "for tool in cli_tools".
RECURSIVE CliToolLoop(_, _, _, _, _, _)
CliToolLoop(tools, home, fs, which, procs, found_tools) ==
  IF tools = << >> THEN Ok(ListV(found_tools))
  ELSE LET tool_info == CheckTool(Head(tools), home, fs, which, procs)
       IN  IF tool_info.exc # NoError THEN tool_info
           ELSE CliToolLoop(Tail(tools), home, fs, which, procs,
                            IF tool_info.value.t # "none"
                            THEN Append(found_tools, tool_info.value)
                            ELSE found_tools)

\* CLIToolScanner.scan()
CliToolScan(config, home, fs, which, procs) ==
  CliToolLoop(config.cli_tools, home, fs, which, procs, << >>)

(***************************************************************************)
(* ConfigurationScanner                                                    *)
(***************************************************************************)

\* sorted(files)[:20] in ConfigurationScanner.scan
ConfigFilesLimit == 20

\* The body of "for path in config_location['paths']": a PermissionError of
\* os.listdir or os.stat is recorded, any other exception propagates.
RECURSIVE ConfigPathLoop(_, _, _, _, _)
ConfigPathLoop(fs, home, name, paths, found_configs) ==
  IF paths = << >> THEN Ok(found_configs)
  ELSE LET expanded_path == ExpandUser(Head(paths), home)
           st == Lookup(fs, expanded_path)
           config_info == [type |-> StrV(<< "c", "o", "n", "f", "i", "g", "u", "r", "a", "t", "i", "o", "n" >>),
                           name |-> StrV(name),
                           path |-> StrV(expanded_path),
                           exists |-> BoolV(TRUE)]
       IN  IF ~Exists(st) THEN ConfigPathLoop(fs, home, name, Tail(paths), found_configs)
           ELSE IF st.err = E_PermissionError
           THEN ConfigPathLoop(fs, home, name, Tail(paths),
                  Append(found_configs,
                    DictV(config_info @@ [error |-> StrV(L_permission_denied)])))
           ELSE IF st.err # NoError THEN Raise(st.err)
           ELSE IF IsDir(st)
           THEN ConfigPathLoop(fs, home, name, Tail(paths),
                  Append(found_configs,
                    DictV(config_info
                          @@ [file_count |-> IntV(Len(st.entries)),
                              files |-> StrList(Slice(Sorted(st.entries), 0, ConfigFilesLimit))])))
           ELSE ConfigPathLoop(fs, home, name, Tail(paths),
                  Append(found_configs, DictV(config_info @@ [size |-> IntV(st.size)])))

\* The body of "for config_location in config_locations".
RECURSIVE ConfigLocationLoop(_, _, _, _)
ConfigLocationLoop(fs, home, config_locations, found_configs) ==
  IF config_locations = << >> THEN Ok(ListV(found_configs))
  ELSE LET r == ConfigPathLoop(fs, home, Head(config_locations).name,
                               Head(config_locations).paths, found_configs)
       IN  IF r.exc # NoError THEN r
           ELSE ConfigLocationLoop(fs, home, Tail(config_locations), r.value)

\* ConfigurationScanner.scan()
ConfigurationScan(config, home, fs) ==
  ConfigLocationLoop(fs, home, config.config_locations, << >>)

(***************************************************************************)
(* VSCodeExtensionScanner                                                  *)
(***************************************************************************)

L_package_json == << "p", "a", "c", "k", "a", "g", "e", ".", "j", "s", "o", "n" >>

\* VSCodeExtensionScanner.EXTENSION_DIRS
ExtensionDirs(home) ==
  << << ExpandUser(<< "~", "/", ".", "v", "s", "c", "o", "d", "e", "/", "e", "x", "t", "e", "n", "s", "i", "o", "n", "s" >>, home), << "v", "s", "c", "o", "d", "e" >> >>,
     << ExpandUser(<< "~", "/", ".", "v", "s", "c", "o", "d", "e", "-", "i", "n", "s", "i", "d", "e", "r", "s", "/", "e", "x", "t", "e", "n", "s", "i", "o", "n", "s" >>, home), << "v", "s", "c", "o", "d", "e", "-", "i", "n", "s", "i", "d", "e", "r", "s" >> >> >>

\* bool(x) of a report or JSON value.
Truthy(x) ==
  IF x.t = "none" THEN FALSE
  ELSE IF x.t = "bool" THEN x.v
  ELSE IF x.t = "int" THEN x.v # 0
  ELSE IF x.t = "dict" THEN DOMAIN x.v # {}
  ELSE x.v # << >>

\* The record built from the catalog entry alone.
CatalogExtensionInfo(ext_path, ext_cfg, vscode_type) ==
  DictV([type |-> StrV(<< "v", "s", "c", "o", "d", "e", "_", "e", "x", "t", "e", "n", "s", "i", "o", "n" >>),
         extension_id |-> StrV(Get(ext_cfg, "id", << >>)),
         name |-> StrV(Get(ext_cfg, "name", Get(ext_cfg, "id", << >>))),
         vendor |-> StrV(Get(ext_cfg, "vendor", << >>)),
         version |-> StrV(L_unknown),
         path |-> StrV(ext_path),
         vscode_type |-> StrV(vscode_type)])

\* '%' in display_name raises TypeError when display_name is no container.
PercentInRaises(x) == x.t \in { "int", "bool" }

\* '%' in display_name
PercentIn(x) ==
  IF x.t = "str" THEN Contains(x.v, << "%" >>)
  ELSE IF x.t = "list"
       THEN \E i \in 1..Len(x.v) : x.v[i].t = "str" /\ x.v[i].v = << "%" >>
  ELSE IF x.t = "dict" THEN "%" \in DOMAIN x.v
  ELSE FALSE

\* VSCodeExtensionScanner._read_extension_info(ext_path, ext_cfg, vscode_type):
\* json.JSONDecodeError and OSError are caught; pkg.get on a JSON value that is
\* no object raises AttributeError.
ReadExtensionInfo(fs, ext_path, ext_cfg, vscode_type) ==
  LET pkg_path == Join(ext_path, L_package_json)
      st == Lookup(fs, pkg_path)
      pkg == st.data
  IN  IF ~IsFile(st) THEN Ok(CatalogExtensionInfo(ext_path, ext_cfg, vscode_type))
      ELSE IF st.err = E_JSONDecodeError \/ IsOSError(st.err)
      THEN Ok(CatalogExtensionInfo(ext_path, ext_cfg, vscode_type))
      ELSE IF st.err # NoError THEN Raise(st.err)
      ELSE IF pkg.t # "dict" THEN Raise(E_AttributeError)
      ELSE LET dn0 == Get(pkg.v, "displayName", NoneV)
               dn1 == IF Truthy(dn0) THEN dn0 ELSE StrV(<< >>)
               pkg_name == Get(pkg.v, "name", StrV(<< >>))
               display_name ==
                 IF PercentIn(dn1) \/ ~Truthy(dn1)
                 THEN IF Get(ext_cfg, "name", << >>) # << >> THEN StrV(ext_cfg.name)
                      ELSE IF Truthy(pkg_name) THEN pkg_name
                      ELSE StrV(Get(ext_cfg, "id", << >>))
                 ELSE dn1
           IN  IF PercentInRaises(dn1) THEN Raise(E_TypeError)
               ELSE Ok(DictV([type |-> StrV(<< "v", "s", "c", "o", "d", "e", "_", "e", "x", "t", "e", "n", "s", "i", "o", "n" >>),
                              extension_id |-> StrV(Get(ext_cfg, "id", << >>)),
                              name |-> display_name,
                              vendor |-> IF "vendor" \in DOMAIN ext_cfg
                                         THEN StrV(ext_cfg.vendor)
                                         ELSE Get(pkg.v, "publisher", StrV(<< >>)),
                              version |-> Get(pkg.v, "version", StrV(L_unknown)),
                              path |-> StrV(ext_path),
                              vscode_type |-> StrV(vscode_type)]))

\* Whether the directory entry belongs to the catalog extension: the entry
\* starts with ext_id + '-', as it is or with both lowercased.
MatchesExtension(entry, ext_cfg) ==
  LET id0 == Get(ext_cfg, "id", << >>)
      ext_id == IF id0 # << >> THEN id0 ELSE Get(ext_cfg, "name", << >>)
      prefix == ext_id \o << "-" >>
  IN  /\ ext_id # << >>
      /\ Contains(ext_id, << "." >>)
      /\ StartsWith(entry, prefix) \/ StartsWith(Lower(entry), Lower(prefix))

\* Mutant: the last catalog extension that matches gives the record.
RECURSIVE WantedLoop_LastMatch(_, _, _, _, _)
WantedLoop_LastMatch(fs, ext_dir, vscode_type, entry, wanted) ==
  IF wanted = << >> THEN Ok(NoneV)
  ELSE IF MatchesExtension(entry, wanted[Len(wanted)])
  THEN ReadExtensionInfo(fs, Join(ext_dir, entry), wanted[Len(wanted)], vscode_type)
  ELSE WantedLoop_LastMatch(fs, ext_dir, vscode_type, entry, SubSeq(wanted, 1, Len(wanted) - 1))

\* The body of "for ext_cfg in wanted" for one entry: the record of the first
\* catalog extension that matches (then break), NoneV when none matches.
RECURSIVE WantedLoop(_, _, _, _, _)
WantedLoop(fs, ext_dir, vscode_type, entry, wanted) ==
  IF wanted = << >> THEN Ok(NoneV)
  ELSE IF MatchesExtension(entry, Head(wanted))
  THEN ReadExtensionInfo(fs, Join(ext_dir, entry), Head(wanted), vscode_type)
  ELSE WantedLoop(fs, ext_dir, vscode_type, entry, Tail(wanted))

\* The body of "for entry in os.listdir(ext_dir)".
RECURSIVE EntryLoop(_, _, _, _, _, _)
EntryLoop(fs, ext_dir, vscode_type, entries, wanted, found) ==
  IF entries = << >> THEN Ok(found)
  ELSE LET info == WantedLoop(fs, ext_dir, vscode_type, Head(entries), wanted)
       IN  IF info.exc # NoError THEN info
           ELSE EntryLoop(fs, ext_dir, vscode_type, Tail(entries), wanted,
                          IF info.value.t # "none" THEN Append(found, info.value) ELSE found)

\* The body of "for ext_dir, vscode_type in self.EXTENSION_DIRS": a root that
\* is no directory and a PermissionError of os.listdir are skipped.
RECURSIVE ExtensionDirLoop(_, _, _, _)
ExtensionDirLoop(fs, dirs, wanted, found) ==
  IF dirs = << >> THEN Ok(ListV(found))
  ELSE LET ext_dir == Head(dirs)[1]
           vscode_type == Head(dirs)[2]
           st == Lookup(fs, ext_dir)
       IN  IF ~IsDir(st) THEN ExtensionDirLoop(fs, Tail(dirs), wanted, found)
           ELSE IF st.err = E_PermissionError
           THEN ExtensionDirLoop(fs, Tail(dirs), wanted, found)
           ELSE IF st.err # NoError THEN Raise(st.err)
           ELSE LET r == EntryLoop(fs, ext_dir, vscode_type, st.entries, wanted, found)
                IN  IF r.exc # NoError THEN r
                    ELSE ExtensionDirLoop(fs, Tail(dirs), wanted, r.value)

\* VSCodeExtensionScanner.scan()
VSCodeExtensionScan(config, home, fs) ==
  ExtensionDirLoop(fs, ExtensionDirs(home), config.vscode_extensions, << >>)

(***************************************************************************)
(* AIAppScanner.scan                                                       *)
(***************************************************************************)

\* os.getenv('USER', 'unknown'): USER is NoneV when the variable is not set.
RawUser(e) == IF e.USER.t = "none" THEN L_unknown ELSE e.USER.v

\* results['scan_metadata']
ScanMetadata(e) ==
  DictV([timestamp |-> StrV(e.now),
         scanner_version |-> StrV(<< "0", ".", "2", ".", "0" >>),
         hostname |-> StrV(AnonymizeHostname(e.node)),
         os_version |-> StrV(e.mac_ver),
         config_version |-> StrV(Get(e.config, "version", L_unknown)),
         user |-> StrV(AnonymizeIdentifier(RawUser(e)))])

\* Mutant: total_configurations counts the CLI tool records.
Summary_WrongList(r) ==
  DictV([total_applications |-> IntV(Len(r.v.applications.v)),
         total_cli_tools |-> IntV(Len(r.v.cli_tools.v)),
         total_configurations |-> IntV(Len(r.v.cli_tools.v)),
         total_vscode_extensions |-> IntV(Len(r.v.vscode_extensions.v))])

\* results['summary']
Summary(r) ==
  DictV([total_applications |-> IntV(Len(r.v.applications.v)),
         total_cli_tools |-> IntV(Len(r.v.cli_tools.v)),
         total_configurations |-> IntV(Len(r.v.configurations.v)),
         total_vscode_extensions |-> IntV(Len(r.v.vscode_extensions.v))])

(***************************************************************************)
(* The catalog and the hosts                                               *)
(***************************************************************************)

\* ScannerConfig.config: entries of the default configuration, two extension
\* entries that can never match (no id and a name without "."; an id without
\* ".") and one with an empty id and a name of the form publisher.name.
Catalog ==
  [version |-> << "1", ".", "0" >>,
   applications |->
     << [name |-> << "C", "l", "a", "u", "d", "e", ".", "a", "p", "p" >>, vendor |-> << "A", "n", "t", "h", "r", "o", "p", "i", "c" >>],
        [name |-> << "C", "u", "r", "s", "o", "r", ".", "a", "p", "p" >>, vendor |-> << "C", "u", "r", "s", "o", "r" >>] >>,
   cli_tools |->
     << [name |-> << "c", "l", "a", "u", "d", "e" >>, vendor |-> << "A", "n", "t", "h", "r", "o", "p", "i", "c" >>,
         version_cmd |-> << << "c", "l", "a", "u", "d", "e" >>, << "-", "-", "v", "e", "r", "s", "i", "o", "n" >> >>,
         config_paths |-> << << "~", "/", ".", "c", "o", "n", "f", "i", "g", "/", "c", "l", "a", "u", "d", "e" >>, << "~", "/", ".", "c", "l", "a", "u", "d", "e" >> >>],
        [name |-> << "o", "l", "l", "a", "m", "a" >>, vendor |-> << "O", "l", "l", "a", "m", "a" >>,
         version_cmd |-> << << "o", "l", "l", "a", "m", "a" >>, << "-", "-", "v", "e", "r", "s", "i", "o", "n" >> >>,
         config_paths |-> << << "~", "/", ".", "o", "l", "l", "a", "m", "a" >> >>] >>,
   config_locations |->
     << [name |-> << "O", "p", "e", "n", "A", "I" >>, paths |-> << << "~", "/", ".", "o", "p", "e", "n", "a", "i" >>, << "~", "/", ".", "c", "o", "n", "f", "i", "g", "/", "o", "p", "e", "n", "a", "i" >> >>],
        [name |-> << "A", "n", "t", "h", "r", "o", "p", "i", "c" >>, paths |-> << << "~", "/", ".", "a", "n", "t", "h", "r", "o", "p", "i", "c" >> >>] >>,
   vscode_extensions |->
     << [name |-> << "N", "o", "I", "d" >>, vendor |-> << "N", "o", "n", "e" >>],
        [id |-> << >>, name |-> << "a", "c", "m", "e", ".", "h", "e", "l", "p", "e", "r" >>, vendor |-> << "A", "c", "m", "e" >>],
        [id |-> << "n", "o", "d", "o", "t" >>, name |-> << "N", "o", " ", "D", "o", "t" >>, vendor |-> << "N", "o", "n", "e" >>],
        [id |-> << "k", "i", "l", "o", "c", "o", "d", "e", ".", "K", "i", "l", "o", "-", "C", "o", "d", "e" >>, name |-> << "K", "i", "l", "o", " ", "C", "o", "d", "e" >>, vendor |-> << "K", "i", "l", "o" >>],
        [id |-> << "r", "o", "o", "c", "o", "d", "e", ".", "r", "o", "o", "c", "o", "d", "e" >>, name |-> << "R", "o", "o", " ", "C", "o", "d", "e" >>, vendor |-> << "R", "o", "o" >>],
        [id |-> << "r", "o", "o", "c", "o", "d", "e", ".", "r", "o", "o", "c", "o", "d", "e", "-", "n", "i", "g", "h", "t", "l", "y" >>, vendor |-> << "R", "o", "o" >>] >>]

\* A host: environment variables, platform answers, filesystem, executable
\* search path (which) and processes (procs).
Host(user, home, node) ==
  [USER |-> user, HOME |-> home, node |-> node,
   mac_ver |-> << "1", "4", ".", "4", ".", "1" >>, now |-> << "2", "0", "2", "4", "-", "0", "5", "-", "0", "1", "T", "1", "2", ":", "0", "0", ":", "0", "0", ".", "1", "2", "3", "4", "5", "6" >>,
   config |-> Catalog, fs |-> << >>, which |-> << >>, procs |-> << >>]

\* The host h with the filesystem entries fs added.
WithFs(h, fs) == [h EXCEPT !.fs = fs @@ h.fs]

Hosts ==
  { Host(StrV(<< "b", "o", "b" >>), << "/", "U", "s", "e", "r", "s", "/", "b", "o", "b" >>, << "B", "o", "b", "s", "-", "M", "a", "c", "B", "o", "o", "k", ".", "l", "o", "c", "a", "l" >>),
    Host(StrV(<< "a", "l", "i", "c", "e" >>), << "/", "U", "s", "e", "r", "s", "/", "a", "l", "i", "c", "e", "/" >>, << "a", "l", "i", "c", "e", "-", "m", "b", "p", ".", "l", "o", "c", "a", "l" >>),
    Host(StrV(<< "e", "d", "d", "i", "e" >>), << "/", "U", "s", "e", "r", "s", "/", "e", "d", "d", "i", "e" >>, << "s", "t", "u", "d", "i", "o" >>),
    Host(NoneV, << "/", "v", "a", "r", "/", "r", "o", "o", "t" >>, << >>) }

\* decimal digits of n >= 0
RECURSIVE Decimal(_)
Decimal(n) ==
  IF n < 10 THEN << Chr(48 + n) >> ELSE Decimal(n \div 10) \o << Chr(48 + (n % 10)) >>

\* The i-th file name of a directory's content.
FileName(i) == (IF i % 2 = 0 THEN << "c", "f", "g" >> ELSE << "L", "o", "g" >>) \o Decimal(i) \o << ".", "j", "s", "o", "n" >>

\* The most entries a listed directory holds.
MaxFiles == 25

\* A listing of n entries as os.listdir may return it: in no useful order
\* (descending or ascending by number).
Listing(n, descending) ==
  [i \in 1..n |-> IF descending THEN FileName(n + 1 - i) ELSE FileName(i)]

Listings == { Listing(n, d) : n \in 0..MaxFiles, d \in BOOLEAN }

(***************************************************************************)
(* State                                                                   *)
(***************************************************************************)

VARIABLES
  pc,               \* the position of the run
  arg,              \* the argument of the function under call
  ret,              \* its return value
  results,          \* the report under assembly (scan) or the tree under sanitization
  once,             \* the tree as the first sanitization pass left it
  real_home,        \* os.path.expanduser('~')
  anonymized_home,  \* "/Users/" + the user's pseudonym
  env               \* what the host answers: environment variables, filesystem, processes

vars == << pc, arg, ret, results, once, real_home, anonymized_home, env >>

\* The host before anything is read from it.
NoEnv == [HOME |-> << >>]

(***************************************************************************)
(* SpecAnon: the anonymizer functions applied to one input                 *)
(***************************************************************************)

\* The largest run of spaces put before and after an input word.
MaxPad == 1

Spaces(n) == [i \in 1..n |-> " "]

AnonWords ==
  { << >>,
    << "a" >>,
    << "a", "l" >>,
    << "b", "o", "b" >>,
    << "d", "a", "v", "e" >>,
    << "a", "l", "i", "c", "e" >>,
    << "e", "d", "d", "i", "e" >>,
    << "B", "o", "b", "b", "y" >>,
    << "a", " ", "b" >>,
    << "\t", "b", "o", "b", "\n" >>,
    L_unknown,
    << "m", "y", "h", "o", "s", "t" >>,
    << "m", "y", "h", "o", "s", "t", ".", "l", "o", "c", "a", "l" >>,
    << "M", "y", "H", "o", "s", "t", ".", "l", "o", "c", "a", "l" >>,
    << "m", "y", "h", "o", "s", "t", ".", "L", "O", "C", "A", "L" >>,
    << "m", "y", "h", "o", "s", "t", ".", "l", "o", "c", "a", "l", ".", "l", "o", "c", "a", "l" >>,
    << "m", "y", "c", "a", "l", ".", "l", "o", "c", "a", "l" >>,
    << "c", "o", "c", "o", "a", ".", "l", "o", "c", "a", "l" >>,
    L_dot_local,
    << "l", "o", "c", "a", "l" >>,
    << "h", "o", "s", "t", ".", "l", "a", "n" >> }

AnonInputs ==
  { Spaces(l) \o w \o Spaces(r) : w \in AnonWords, l \in 0..MaxPad, r \in 0..MaxPad }

InitAnon ==
  /\ pc = "idle"
  /\ arg \in AnonInputs
  /\ ret = << >>
  /\ results = NoneV
  /\ once = NoneV
  /\ real_home = << >>
  /\ anonymized_home = << >>
  /\ env = NoEnv

CallAnonymizeIdentifier ==
  /\ pc = "idle"
  /\ pc' = "identifier"
  /\ ret' = AnonymizeIdentifier(arg)
  /\ UNCHANGED << arg, results, once, real_home, anonymized_home, env >>

CallAnonymizeHostname ==
  /\ pc = "idle"
  /\ pc' = "hostname"
  /\ ret' = AnonymizeHostname(arg)
  /\ UNCHANGED << arg, results, once, real_home, anonymized_home, env >>

NextAnon == CallAnonymizeIdentifier \/ CallAnonymizeHostname

SpecAnon == InitAnon /\ [][NextAnon]_vars

(***************************************************************************)
(* SpecSanitize: _sanitize_paths_in_output applied twice to one tree       *)
(***************************************************************************)

\* The (real_home, anonymized_home) pairs scan() builds for the users bob,
\* alice, eddie (home under /Users) and dev (home under /home).
HomePairs ==
  { << << "/", "U", "s", "e", "r", "s", "/", "b", "o", "b" >>, L_Users \o AnonymizeIdentifier(<< "b", "o", "b" >>) >>,
    << << "/", "U", "s", "e", "r", "s", "/", "a", "l", "i", "c", "e" >>, L_Users \o AnonymizeIdentifier(<< "a", "l", "i", "c", "e" >>) >>,
    << << "/", "h", "o", "m", "e", "/", "d", "e", "v" >>, L_Users \o AnonymizeIdentifier(<< "d", "e", "v" >>) >>,
    << << "/", "U", "s", "e", "r", "s", "/", "e", "d", "d", "i", "e" >>, L_Users \o AnonymizeIdentifier(<< "e", "d", "d", "i", "e" >>) >> }

TreeStrings ==
  { << >>,
    << "1", ".", "2", ".", "3" >>,
    << "/", "o", "p", "t", "/", "h", "o", "m", "e", "b", "r", "e", "w", "/", "b", "i", "n", "/", "c", "l", "a", "u", "d", "e" >>,
    << "/", "U", "s", "e", "r", "s", "/", "b", "o", "b" >>,
    << "/", "U", "s", "e", "r", "s", "/", "b", "o", "b", "/", ".", "c", "l", "a", "u", "d", "e" >>,
    << "/", "U", "s", "e", "r", "s", "/", "b", "o", "b", "b", "y", "/", ".", "c", "l", "a", "u", "d", "e" >>,
    << "/", "U", "s", "e", "r", "s", "/", "a", "l", "i", "c", "e", "/", "b", "i", "n", ":", "/", "U", "s", "e", "r", "s", "/", "a", "l", "i", "c", "e", "/", ".", "l", "o", "c", "a", "l", "/", "b", "i", "n" >>,
    << "/", "h", "o", "m", "e", "/", "d", "e", "v", "/", ".", "c", "o", "n", "f", "i", "g", "/", "c", "l", "a", "u", "d", "e" >>,
    << "/", "U", "s", "e", "r", "s", "/", "e", "d", "d", "i", "e", "/", "L", "i", "b", "r", "a", "r", "y" >> }

\* The trees: a root dict or list (the walk is in place, so the root is a
\* container) over one or two strings, with int and bool leaves and nesting
\* dict -> list -> dict -> list -> dict.
Trees ==
  { DictV([path |-> StrV(s), exists |-> BoolV(TRUE), file_count |-> IntV(3)]) :
      s \in TreeStrings }
  \cup { ListV(<< StrV(s1), StrV(s2) >>) : s1 \in TreeStrings, s2 \in TreeStrings }
  \cup { ListV(<< ListV(<< StrV(s) >>), IntV(1) >>) : s \in TreeStrings }
  \cup { DictV([cli_tools |->
                  ListV(<< DictV([path |-> StrV(s1),
                                  configurations |->
                                    ListV(<< DictV([path |-> StrV(s2),
                                                    exists |-> BoolV(TRUE)]) >>)]) >>)]) :
           s1 \in TreeStrings, s2 \in TreeStrings }

InitSanitize ==
  /\ pc = "tree"
  /\ results \in Trees
  /\ arg = results
  /\ \E p \in HomePairs : real_home = p[1] /\ anonymized_home = p[2]
  /\ once = NoneV
  /\ ret = NoneV
  /\ env = NoEnv

\* One call of _sanitize_paths_in_output(results, real_home, anonymized_home).
CallSanitizePaths ==
  /\ pc \in { "tree", "once" }
  /\ results' = SanitizePathsInOutput(results, real_home, anonymized_home)
  /\ once' = IF pc = "tree" THEN results' ELSE once
  /\ pc' = IF pc = "tree" THEN "once" ELSE "twice"
  /\ UNCHANGED << arg, ret, real_home, anonymized_home, env >>

NextSanitize == CallSanitizePaths

SpecSanitize == InitSanitize /\ [][NextSanitize]_vars

(***************************************************************************)
(* SpecProbes: each probe run once on one host                             *)
(***************************************************************************)

E_InvalidFileException == << "I", "n", "v", "a", "l", "i", "d", "F", "i", "l", "e", "E", "x", "c", "e", "p", "t", "i", "o", "n" >>

ProbeHosts ==
  { Host(StrV(<< "b", "o", "b" >>), << "/", "U", "s", "e", "r", "s", "/", "b", "o", "b" >>, << "B", "o", "b", "s", "-", "M", "a", "c", "B", "o", "o", "k", ".", "l", "o", "c", "a", "l" >>),
    Host(NoneV, << "/", "v", "a", "r", "/", "r", "o", "o", "t" >>, << >>) }

\* What an application search directory may be.
AppDirStates ==
  { Missing,
    Dir(<< << "C", "l", "a", "u", "d", "e", ".", "a", "p", "p" >>, << "N", "o", "t", "e", "s", ".", "a", "p", "p" >>, << "C", "u", "r", "s", "o", "r", ".", "a", "p", "p" >>, << "C", "l", "a", "u", "d", "e", ".", "a", "p", "p", ".", "b", "a", "k" >> >>),
    DirErr(E_PermissionError),
    File(0),
    DirErr(E_FileNotFoundError) }

\* What the Info.plist of a Claude.app bundle may be.
PlistStates ==
  { Missing,
    FileErr(E_InvalidFileException),
    FileData([CFBundleShortVersionString |-> StrV(<< "1", ".", "2", ".", "3" >>),
              CFBundleVersion |-> StrV(<< "4", "5", "6" >>),
              CFBundleIdentifier |-> StrV(<< "c", "o", "m", ".", "a", "n", "t", "h", "r", "o", "p", "i", "c", ".", "c", "l", "a", "u", "d", "e" >>)]),
    FileData([CFBundleIdentifier |-> StrV(<< "c", "o", "m", ".", "a", "n", "t", "h", "r", "o", "p", "i", "c", ".", "c", "l", "a", "u", "d", "e" >>)]) }

AppFs(home, d1, d2, d3, plist) ==
  LET dirs == AppDirs(home)
  IN  (dirs[1] :> d1) @@ (dirs[2] :> d2) @@ (dirs[3] :> d3)
      @@ [ p \in { Join(Join(dirs[i], << "C", "l", "a", "u", "d", "e", ".", "a", "p", "p" >>), L_Info_plist) : i \in 1..3 } |-> plist ]

AppEnvs ==
  { WithFs(h, AppFs(h.HOME, d1, d2, d3, plist)) :
      h \in ProbeHosts, d1 \in AppDirStates, d2 \in AppDirStates, d3 \in AppDirStates,
      plist \in PlistStates }

\* What a candidate configuration path may be.
ConfigStates ==
  { Missing, File(120), FileErr(E_PermissionError), DirErr(E_PermissionError),
    DirErr(E_FileNotFoundError), DirErr(E_OSError) }
  \cup { Dir(l) : l \in Listings }

\* What running "claude --version" may do.
ProcOutcomes ==
  { Process(NoError, 1, << "c", "l", "a", "u", "d", "e", " ", "1", ".", "0", ".", "3" >> \o << "\n" >>, << >>),
    Process(NoError, 1, << >>, << "w", "a", "r", "n", "i", "n", "g", ":", " ", "n", "o", " ", "t", "t", "y" >> \o << "\n" >> \o << "v", "2", ".", "1" >> \o << "\n" >>),
    Process(NoError, 1, << " ", "\n" >>, << >>),
    Process(NoError, 1, [i \in 1..(VersionMaxLen + 1) |-> "v"], << >>),
    Process(NoError, VersionTimeout, << "1", ".", "0" >>, << >>),
    Process(NoError, VersionTimeout + 1, << >>, << >>),
    Process(E_FileNotFoundError, 0, << >>, << >>),
    Process(E_PermissionError, 0, << >>, << >>) }

\* Where shutil.which may find claude and ollama (<< >>: nowhere).
WhichClaude(home) ==
  { << >>, ExpandUser(<< "~", "/", ".", "l", "o", "c", "a", "l", "/", "b", "i", "n", "/", "c", "l", "a", "u", "d", "e" >>, home), << "/", "o", "p", "t", "/", "h", "o", "m", "e", "b", "r", "e", "w", "/", "b", "i", "n", "/", "c", "l", "a", "u", "d", "e" >> }

Which(claude, ollama) ==
  [ n \in (IF claude = << >> THEN {} ELSE { << "c", "l", "a", "u", "d", "e" >> })
          \cup (IF ollama = << >> THEN {} ELSE { << "o", "l", "l", "a", "m", "a" >> }) |->
      IF n = << "c", "l", "a", "u", "d", "e" >> THEN claude ELSE ollama ]

CliEnvs ==
  { [ h EXCEPT
        !.which = Which(c, o),
        !.procs = (<< << "c", "l", "a", "u", "d", "e" >>, << "-", "-", "v", "e", "r", "s", "i", "o", "n" >> >> :> p)
                  @@ (<< << "o", "l", "l", "a", "m", "a" >>, << "-", "-", "v", "e", "r", "s", "i", "o", "n" >> >> :> Process(NoError, 1, << "o", "l", "l", "a", "m", "a", " ", "v", "e", "r", "s", "i", "o", "n", " ", "i", "s", " ", "0", ".", "1", ".", "3", "2" >>, << >>)),
        !.fs = (ExpandUser(<< "~", "/", ".", "c", "l", "a", "u", "d", "e" >>, h.HOME) :> st)
               @@ (ExpandUser(<< "~", "/", ".", "c", "o", "n", "f", "i", "g", "/", "c", "l", "a", "u", "d", "e" >>, h.HOME) :> File(64))
               @@ (ExpandUser(<< "~", "/", ".", "o", "l", "l", "a", "m", "a" >>, h.HOME) :> Dir(Listing(2, FALSE))) ] :
      h \in ProbeHosts, c \in UNION { WhichClaude(g.HOME) : g \in ProbeHosts },
      o \in { << >>, << "/", "u", "s", "r", "/", "l", "o", "c", "a", "l", "/", "b", "i", "n", "/", "o", "l", "l", "a", "m", "a" >> }, p \in ProcOutcomes, st \in ConfigStates }

ConfigEnvs ==
  { WithFs(h, (ExpandUser(<< "~", "/", ".", "o", "p", "e", "n", "a", "i" >>, h.HOME) :> st)
              @@ (ExpandUser(<< "~", "/", ".", "c", "o", "n", "f", "i", "g", "/", "o", "p", "e", "n", "a", "i" >>, h.HOME) :> f)
              @@ (ExpandUser(<< "~", "/", ".", "a", "n", "t", "h", "r", "o", "p", "i", "c" >>, h.HOME) :> d)) :
      h \in ProbeHosts, st \in ConfigStates,
      f \in { Missing, File(10), FileErr(E_FileNotFoundError), FileErr(E_PermissionError) },
      d \in { Missing, Dir(Listing(3, TRUE)) } }

\* What the package.json of an extension directory may be.
ManifestStates ==
  { Missing,
    Dir(<< >>),
    FileErr(E_JSONDecodeError),
    FileErr(E_PermissionError),
    FileErr(E_UnicodeDecodeError),
    FileData(ListV(<< >>)),
    FileData(DictV(<< >>)),
    FileData(DictV([displayName |-> StrV(<< "R", "o", "o", " ", "C", "o", "d", "e", " ", "(", "p", "r", "e", "v", ".", " ", "R", "o", "o", " ", "C", "l", "i", "n", "e", ")" >>),
                    name |-> StrV(<< "r", "o", "o", "-", "c", "o", "d", "e" >>),
                    publisher |-> StrV(<< "R", "o", "o", "V", "e", "t", "e", "r", "i", "n", "a", "r", "y", "I", "n", "c" >>),
                    version |-> StrV(<< "3", ".", "1", ".", "0" >>)])),
    FileData(DictV([displayName |-> StrV(<< "%", "e", "x", "t", "e", "n", "s", "i", "o", "n", ".", "d", "i", "s", "p", "l", "a", "y", "N", "a", "m", "e", "%" >>),
                    name |-> StrV(<< "r", "o", "o", "-", "c", "o", "d", "e" >>),
                    version |-> StrV(<< "3", ".", "1", ".", "0" >>)])),
    FileData(DictV([displayName |-> IntV(5), version |-> StrV(<< "3", ".", "1", ".", "0" >>)])) }

\* What an extension root may be.
ExtensionRootStates ==
  { Missing,
    File(0),
    DirErr(E_PermissionError),
    DirErr(E_FileNotFoundError),
    Dir(<< << "r", "o", "o", "c", "o", "d", "e", ".", "r", "o", "o", "c", "o", "d", "e", "-", "3", ".", "1", ".", "0" >>, << "m", "s", "-", "p", "y", "t", "h", "o", "n", ".", "p", "y", "t", "h", "o", "n", "-", "2", "0", "2", "4", ".", "1" >>, << "K", "i", "l", "o", "c", "o", "d", "e", ".", "k", "i", "l", "o", "-", "c", "o", "d", "e", "-", "4", ".", "0", ".", "0" >> >>),
    Dir(<< << "r", "o", "o", "c", "o", "d", "e", ".", "r", "o", "o", "c", "o", "d", "e", "-", "n", "i", "g", "h", "t", "l", "y", "-", "0", ".", "9" >>, << "n", "o", "d", "o", "t", "-", "1", ".", "0" >>, << "N", "o", "I", "d", "-", "1", ".", "0" >>, << ".", "o", "b", "s", "o", "l", "e", "t", "e" >>, << "a", "c", "m", "e", ".", "h", "e", "l", "p", "e", "r", "-", "2", ".", "0" >> >>) }

VSCodeFs(home, r1, r2, manifest) ==
  LET dirs == ExtensionDirs(home)
  IN  (dirs[1][1] :> r1) @@ (dirs[2][1] :> r2)
      @@ [ p \in { Join(Join(dirs[i][1], e), L_package_json) :
                     i \in 1..2,
                     e \in { r1.entries[j] : j \in 1..Len(r1.entries) }
                           \cup { r2.entries[j] : j \in 1..Len(r2.entries) } } |-> manifest ]

VSCodeEnvs ==
  { WithFs(h, VSCodeFs(h.HOME, r1, r2, m)) :
      h \in ProbeHosts, r1 \in ExtensionRootStates,
      r2 \in { Missing, Dir(<< << "r", "o", "o", "c", "o", "d", "e", ".", "r", "o", "o", "c", "o", "d", "e", "-", "3", ".", "1", ".", "0" >> >>) }, m \in ManifestStates }

InitProbes ==
  /\ pc = "idle"
  /\ env = NoEnv
  /\ ret = Ok(NoneV)
  /\ arg = NoneV
  /\ results = NoneV
  /\ once = NoneV
  /\ real_home = << >>
  /\ anonymized_home = << >>

\* ApplicationScanner(config).scan() on one host.
RunApplicationScan ==
  /\ pc = "idle"
  /\ \E e \in AppEnvs :
       /\ env' = e
       /\ ret' = ApplicationScan(e.config, e.HOME, e.fs)
  /\ pc' = "applications"
  /\ UNCHANGED << arg, results, once, real_home, anonymized_home >>

\* CLIToolScanner(config).scan() on one host.
RunCliToolScan ==
  /\ pc = "idle"
  /\ \E e \in CliEnvs :
       /\ env' = e
       /\ ret' = CliToolScan(e.config, e.HOME, e.fs, e.which, e.procs)
  /\ pc' = "cli_tools"
  /\ UNCHANGED << arg, results, once, real_home, anonymized_home >>

\* ConfigurationScanner(config).scan() on one host.
RunConfigurationScan ==
  /\ pc = "idle"
  /\ \E e \in ConfigEnvs :
       /\ env' = e
       /\ ret' = ConfigurationScan(e.config, e.HOME, e.fs)
  /\ pc' = "configurations"
  /\ UNCHANGED << arg, results, once, real_home, anonymized_home >>

\* VSCodeExtensionScanner(config).scan() on one host.
RunVSCodeExtensionScan ==
  /\ pc = "idle"
  /\ \E e \in VSCodeEnvs :
       /\ env' = e
       /\ ret' = VSCodeExtensionScan(e.config, e.HOME, e.fs)
  /\ pc' = "vscode_extensions"
  /\ UNCHANGED << arg, results, once, real_home, anonymized_home >>

NextProbes ==
  \/ RunApplicationScan
  \/ RunCliToolScan
  \/ RunConfigurationScan
  \/ RunVSCodeExtensionScan

SpecProbes == InitProbes /\ [][NextProbes]_vars

(***************************************************************************)
(* Spec: AIAppScanner.scan() on one host                                   *)
(***************************************************************************)

FullPlist ==
  FileData([CFBundleShortVersionString |-> StrV(<< "1", ".", "2", ".", "3" >>),
            CFBundleVersion |-> StrV(<< "4", "5", "6" >>),
            CFBundleIdentifier |-> StrV(<< "c", "o", "m", ".", "a", "n", "t", "h", "r", "o", "p", "i", "c", ".", "c", "l", "a", "u", "d", "e" >>)])

\* The application directories of a host: none; Claude.app installed for all
\* users and for this user; /Applications denied and ~/Applications a file.
AppPieces(h) ==
  { AppFs(h.HOME, Missing, Missing, Missing, Missing),
    AppFs(h.HOME, Dir(<< << "N", "o", "t", "e", "s", ".", "a", "p", "p" >>, << "C", "l", "a", "u", "d", "e", ".", "a", "p", "p" >> >>), Dir(<< << "C", "l", "a", "u", "d", "e", ".", "a", "p", "p" >> >>), Missing, FullPlist),
    AppFs(h.HOME, DirErr(E_PermissionError), File(0), Missing, Missing) }

\* The CLI tools of a host: none; claude installed under the home directory,
\* its version output naming the home directory; claude and ollama installed
\* system-wide, claude hanging and ~/.claude denied; claude installed and
\* ~/.claude failing to list with an I/O error.
CliPieces(h) ==
  LET ollama == << << "o", "l", "l", "a", "m", "a" >>, << "-", "-", "v", "e", "r", "s", "i", "o", "n" >> >> :> Process(NoError, 1, << "o", "l", "l", "a", "m", "a", " ", "v", "e", "r", "s", "i", "o", "n", " ", "i", "s", " ", "0", ".", "1", ".", "3", "2" >>, << >>)
  IN
  { [which |-> << >>, procs |-> << >>, fs |-> << >>],
    [which |-> Which(ExpandUser(<< "~", "/", ".", "l", "o", "c", "a", "l", "/", "b", "i", "n", "/", "c", "l", "a", "u", "d", "e" >>, h.HOME), << >>),
     procs |-> (<< << "c", "l", "a", "u", "d", "e" >>, << "-", "-", "v", "e", "r", "s", "i", "o", "n" >> >> :>
                  Process(NoError, 1, << "1", ".", "0", ".", "3", " ", "(" >> \o ExpandUser(<< "~", "/", ".", "l", "o", "c", "a", "l", "/", "b", "i", "n", "/", "c", "l", "a", "u", "d", "e" >>, h.HOME) \o << ")" >> \o << "\n" >>, << >>))
               @@ ollama,
     fs |-> (ExpandUser(<< "~", "/", ".", "c", "l", "a", "u", "d", "e" >>, h.HOME) :> Dir(Listing(3, TRUE)))
            @@ (ExpandUser(<< "~", "/", ".", "c", "o", "n", "f", "i", "g", "/", "c", "l", "a", "u", "d", "e" >>, h.HOME) :> File(64))],
    [which |-> Which(<< "/", "o", "p", "t", "/", "h", "o", "m", "e", "b", "r", "e", "w", "/", "b", "i", "n", "/", "c", "l", "a", "u", "d", "e" >>, << "/", "u", "s", "r", "/", "l", "o", "c", "a", "l", "/", "b", "i", "n", "/", "o", "l", "l", "a", "m", "a" >>),
     procs |-> (<< << "c", "l", "a", "u", "d", "e" >>, << "-", "-", "v", "e", "r", "s", "i", "o", "n" >> >> :> Process(NoError, VersionTimeout + 1, << >>, << >>))
               @@ ollama,
     fs |-> (ExpandUser(<< "~", "/", ".", "c", "l", "a", "u", "d", "e" >>, h.HOME) :> DirErr(E_PermissionError))
            @@ (ExpandUser(<< "~", "/", ".", "o", "l", "l", "a", "m", "a" >>, h.HOME) :> Dir(Listing(2, FALSE)))],
    [which |-> Which(<< "/", "o", "p", "t", "/", "h", "o", "m", "e", "b", "r", "e", "w", "/", "b", "i", "n", "/", "c", "l", "a", "u", "d", "e" >>, << >>),
     procs |-> (<< << "c", "l", "a", "u", "d", "e" >>, << "-", "-", "v", "e", "r", "s", "i", "o", "n" >> >> :> Process(NoError, 1, << "1", ".", "0", ".", "3" >>, << >>)) @@ ollama,
     fs |-> (ExpandUser(<< "~", "/", ".", "c", "l", "a", "u", "d", "e" >>, h.HOME) :> DirErr(E_OSError))] }

\* The configuration locations of a host: none; ~/.openai a directory and
\* ~/.anthropic a file; ~/.openai denied; ~/.config/openai gone when read.
ConfigPieces(h) ==
  { << >>,
    (ExpandUser(<< "~", "/", ".", "o", "p", "e", "n", "a", "i" >>, h.HOME) :> Dir(Listing(3, FALSE)))
      @@ (ExpandUser(<< "~", "/", ".", "a", "n", "t", "h", "r", "o", "p", "i", "c" >>, h.HOME) :> File(10)),
    (ExpandUser(<< "~", "/", ".", "o", "p", "e", "n", "a", "i" >>, h.HOME) :> DirErr(E_PermissionError)),
    (ExpandUser(<< "~", "/", ".", "c", "o", "n", "f", "i", "g", "/", "o", "p", "e", "n", "a", "i" >>, h.HOME) :> FileErr(E_FileNotFoundError)) }

\* The VSCode extension roots of a host: none; one root with a readable
\* manifest; both roots with a manifest that is not valid JSON; both roots
\* with a manifest that is a JSON array; the insiders root with a manifest
\* whose "version" is null.
VSCodePieces(h) ==
  LET installed == Dir(<< << "r", "o", "o", "c", "o", "d", "e", ".", "r", "o", "o", "c", "o", "d", "e", "-", "3", ".", "1", ".", "0" >>, << "m", "s", "-", "p", "y", "t", "h", "o", "n", ".", "p", "y", "t", "h", "o", "n", "-", "2", "0", "2", "4", ".", "1" >>, << "K", "i", "l", "o", "c", "o", "d", "e", ".", "k", "i", "l", "o", "-", "c", "o", "d", "e", "-", "4", ".", "0", ".", "0" >> >>)
  IN
  { << >>,
    VSCodeFs(h.HOME, installed, Missing,
             FileData(DictV([displayName |-> StrV(<< "R", "o", "o", " ", "C", "o", "d", "e", " ", "(", "p", "r", "e", "v", ".", " ", "R", "o", "o", " ", "C", "l", "i", "n", "e", ")" >>),
                             name |-> StrV(<< "r", "o", "o", "-", "c", "o", "d", "e" >>),
                             publisher |-> StrV(<< "R", "o", "o", "V", "e", "t", "e", "r", "i", "n", "a", "r", "y", "I", "n", "c" >>),
                             version |-> StrV(<< "3", ".", "1", ".", "0" >>)]))),
    VSCodeFs(h.HOME, installed, Dir(<< << "r", "o", "o", "c", "o", "d", "e", ".", "r", "o", "o", "c", "o", "d", "e", "-", "n", "i", "g", "h", "t", "l", "y", "-", "0", ".", "9" >> >>), FileErr(E_JSONDecodeError)),
    VSCodeFs(h.HOME, installed, Dir(<< << "r", "o", "o", "c", "o", "d", "e", ".", "r", "o", "o", "c", "o", "d", "e", "-", "n", "i", "g", "h", "t", "l", "y", "-", "0", ".", "9" >> >>), FileData(ListV(<< >>))),
    VSCodeFs(h.HOME, Missing, Dir(<< << "r", "o", "o", "c", "o", "d", "e", ".", "r", "o", "o", "c", "o", "d", "e", "-", "3", ".", "1", ".", "0" >> >>),
             FileData(DictV([name |-> StrV(<< "r", "o", "o", "-", "c", "o", "d", "e" >>),
                             version |-> NoneV]))) }

ScanEnvs ==
  UNION { { [ h EXCEPT !.fs = a @@ c.fs @@ g @@ v, !.which = c.which, !.procs = c.procs ] :
              a \in AppPieces(h), c \in CliPieces(h), g \in ConfigPieces(h), v \in VSCodePieces(h) } :
          h \in Hosts }

Init ==
  /\ pc = "start"
  /\ env \in ScanEnvs
  /\ ret = Ok(NoneV)
  /\ arg = NoneV
  /\ results = NoneV
  /\ once = NoneV
  /\ real_home = << >>
  /\ anonymized_home = << >>

\* scan(), up to the scan_metadata entry of results.
ScanBegin ==
  /\ pc = "start"
  /\ real_home' = ExpandUser(<< "~" >>, env.HOME)
  /\ anonymized_home' = L_Users \o AnonymizeIdentifier(RawUser(env))
  /\ results' = DictV([scan_metadata |-> ScanMetadata(env)])
  /\ pc' = "applications"
  /\ UNCHANGED << arg, ret, once, env >>

\* Mutant: the list of a probe is sanitized as it is added to the report.
ProbeDone_SanitizesEarly(r, key, then) ==
  /\ ret' = r
  /\ IF r.exc # NoError
     THEN pc' = "raised" /\ UNCHANGED results
     ELSE /\ pc' = then
          /\ results' = DictV(results.v @@ (key :> SanitizePathsInOutput(r.value, real_home, anonymized_home)))
  /\ UNCHANGED << arg, once, real_home, anonymized_home, env >>

\* The outcome r of a probe: its list becomes results[key] and the scan goes
\* on at the position then, or its exception leaves scan().
ProbeDone(r, key, then) ==
  /\ ret' = r
  /\ IF r.exc # NoError
     THEN pc' = "raised" /\ UNCHANGED results
     ELSE /\ pc' = then
          /\ results' = DictV(results.v @@ (key :> r.value))
  /\ UNCHANGED << arg, once, real_home, anonymized_home, env >>

\* 'applications': self.app_scanner.scan()
ProbeApplications ==
  /\ pc = "applications"
  /\ ProbeDone(ApplicationScan(env.config, env.HOME, env.fs), "applications", "cli_tools")

\* 'cli_tools': self.cli_scanner.scan()
ProbeCliTools ==
  /\ pc = "cli_tools"
  /\ ProbeDone(CliToolScan(env.config, env.HOME, env.fs, env.which, env.procs),
               "cli_tools", "configurations")

\* 'configurations': self.config_scanner.scan()
ProbeConfigurations ==
  /\ pc = "configurations"
  /\ ProbeDone(ConfigurationScan(env.config, env.HOME, env.fs),
               "configurations", "vscode_extensions")

\* 'vscode_extensions': self.vscode_scanner.scan()
ProbeVSCode ==
  /\ pc = "vscode_extensions"
  /\ ProbeDone(VSCodeExtensionScan(env.config, env.HOME, env.fs),
               "vscode_extensions", "sanitize")

\* _sanitize_paths_in_output(results, real_home, anonymized_home); arg keeps
\* the report as the probes assembled it.
SanitizeReport ==
  /\ pc = "sanitize"
  /\ arg' = results
  /\ results' = SanitizePathsInOutput(results, real_home, anonymized_home)
  /\ pc' = "summary"
  /\ UNCHANGED << ret, once, real_home, anonymized_home, env >>

\* results['summary'] = {...}; return results
AddSummary ==
  /\ pc = "summary"
  /\ results' = DictV(results.v @@ [summary |-> Summary(results)])
  /\ ret' = Ok(results')
  /\ pc' = "returned"
  /\ UNCHANGED << arg, once, real_home, anonymized_home, env >>

Next ==
  \/ ScanBegin
  \/ ProbeApplications
  \/ ProbeCliTools
  \/ ProbeConfigurations
  \/ ProbeVSCode
  \/ SanitizeReport
  \/ AddSummary

Spec == Init /\ [][Next]_vars

(***************************************************************************)
(* Claims on the anonymizer and the sanitizer                             *)
(***************************************************************************)

\* Every str value of a report value (dict keys are not values).
RECURSIVE Strings(_)
Strings(obj) ==
  IF obj.t = "str" THEN { obj.v }
  ELSE IF obj.t = "dict" THEN UNION { Strings(obj.v[k]) : k \in DOMAIN obj.v }
  ELSE IF obj.t = "list" THEN UNION { Strings(obj.v[i]) : i \in 1..Len(obj.v) }
  ELSE {}

\* C2: _sanitize_paths_in_output is idempotent (a second application leaves
\* the tree as the first left it), and after one application no string value
\* of the tree contains real_home.
C2_SanitizeIdempotentAndClean ==
  /\ pc \in { "once", "twice" } =>
       \A s \in Strings(results) : ~Contains(s, real_home)
  /\ pc = "twice" => results = once

\* The occurrence of s in the pseudonym p relies on digest characters: some
\* non-empty tail of s is the head of the 8-character digest suffix.
CoincidesWithDigest(s, p) ==
  \E n \in 1..Len(s) :
    /\ n <= DigestLen
    /\ SubSeq(s, Len(s) - n + 1, Len(s)) = SubSeq(p, Len(p) - DigestLen + 1, Len(p) - DigestLen + n)

\* C3: for every non-empty s the pseudonym of s does not contain s verbatim,
\* unless characters of s coincide with the digest suffix; also for s of
\* length 1 to 4.
C3_PseudonymHidesIdentifier ==
  (pc = "identifier" /\ arg # << >>) =>
    (Contains(ret, arg) => CoincidesWithDigest(arg, ret))

\* C4: a hostname ending case-insensitively in ".local" is anonymized as the
\* hostname with exactly those last 6 characters removed and the others as
\* they are; any other hostname as itself; an empty one as "unknown".
C4_HostnameStripsOneSuffix ==
  pc = "hostname" =>
    ret = AnonymizeIdentifier(
            IF arg = << >> THEN L_unknown
            ELSE IF EndsWith(Lower(arg), L_dot_local)
                 THEN SubSeq(arg, 1, Len(arg) - Len(L_dot_local))
                 ELSE arg)

Min(a, b) == IF a <= b THEN a ELSE b

\* The pseudonym built from value v as the claim C5 describes it: the first
\* min(4, len(v)) characters of v, then the last 8 hex characters of v's digest.
PseudonymOf(v) ==
  LET digest == MD5Hex(Utf8(v))
  IN  SubSeq(v, 1, Min(4, Len(v))) \o SubSeq(digest, Len(digest) - 7, Len(digest))

\* C5 as stated, for non-empty s: the pseudonym is the first min(4, len(trim(s))) characters of
\* trim(s) followed by the last 8 hex characters of the digest of trim(s); its
\* length is min(4, len(trim(s))) + 8, at most 12.
C5_PseudonymOfTrimmed ==
  (pc = "identifier" /\ arg # << >>) =>
    /\ ret = PseudonymOf(Strip(arg))
    /\ Len(ret) = Min(4, Len(Strip(arg))) + 8
    /\ Len(ret) <= 12

\* C5 as amended: the same with v in place of trim(s), where v is trim(s) when
\* that is not empty and "unknown" when it is.
C5_PseudonymOfSubstituted ==
  pc = "identifier" =>
    LET v == IF Strip(arg) = << >> THEN L_unknown ELSE Strip(arg)
    IN  /\ ret = PseudonymOf(v)
        /\ Len(ret) = Min(4, Len(v)) + 8
        /\ Len(ret) <= 12

\* A padded identifier shorter than 4 characters has been anonymized.
C5_Witness ==
  /\ pc = "identifier"
  /\ Strip(arg) # arg
  /\ Len(Strip(arg)) \in 1..3

\* C6: an empty or whitespace-only input gets the pseudonym of "unknown", and
\* leading and trailing whitespace never changes the pseudonym.
C6_BlankIsUnknownAndTrimInvariant ==
  pc = "identifier" =>
    /\ Strip(arg) = << >> => ret = AnonymizeIdentifier(L_unknown)
    /\ ret = AnonymizeIdentifier(Strip(arg))

\* A whitespace-only input (not the empty string) has been anonymized.
C6_Witness ==
  /\ pc = "identifier"
  /\ arg # << >>
  /\ Strip(arg) = << >>

(***************************************************************************)
(* Claims on the scan and the probes                                       *)
(***************************************************************************)

\* C1: the report scan() returns holds no string value that has the real
\* home directory as a substring, whatever the username and home directory.
C1_ReportHidesRealHome ==
  pc = "returned" =>
    \A s \in Strings(ret.value) : ~Contains(s, real_home)

\* The elements of a list value.
Elements(l) == { l.v[i] : i \in 1..Len(l.v) }

\* The records a finished probe run holds for configuration paths: those under
\* 'configurations' of every CLI tool record, or those of the configuration probe.
ConfigRecords ==
  IF ret.exc # NoError THEN {}
  ELSE IF pc = "cli_tools"
       THEN UNION { Elements(tool.v.configurations) : tool \in Elements(ret.value) }
  ELSE IF pc = "configurations" THEN Elements(ret.value)
  ELSE {}

\* The records for a path that is a directory os.listdir can list.
ListedDirRecords ==
  { r \in ConfigRecords :
      LET st == Lookup(env.fs, r.v.path.v) IN IsDir(st) /\ st.err = NoError }

\* C7: the record of an existing, listable directory with n entries has
\* file_count n, and files holds min(n, 20) names: the lexicographically
\* smallest of the entries, in ascending order.
C7_FilesSortedAndCapped ==
  \A r \in ListedDirRecords :
    LET entries == Lookup(env.fs, r.v.path.v).entries
        n       == Len(entries)
        listed  == { entries[j] : j \in 1..n }
    IN  /\ "files" \in DOMAIN r.v
        /\ "file_count" \in DOMAIN r.v
        /\ r.v.file_count = IntV(n)
        /\ r.v.files.t = "list"
        /\ LET files == r.v.files.v
               names == { files[i].v : i \in 1..Len(files) }
           IN  /\ Len(files) = Min(n, 20)
               /\ \A i \in 1..Len(files) : files[i].t = "str"
               /\ names \subseteq listed
               /\ \A i \in 1..(Len(files) - 1) : StrLess(files[i].v, files[i + 1].v)
               /\ \A e \in listed \ names : \A x \in names : StrLess(x, e)

\* The CLI probe has reported a directory of 25 entries that os.listdir
\* returned in descending order.
C7_Witness ==
  /\ pc = "cli_tools"
  /\ \E r \in ListedDirRecords :
       LET entries == Lookup(env.fs, r.v.path.v).entries
       IN  /\ Len(entries) = 25
           /\ StrLess(entries[25], entries[1])
           /\ Len(r.v.files.v) = 20

\* C8: in the report scan() returns, the four totals of summary equal the
\* lengths of the lists applications, cli_tools, configurations and
\* vscode_extensions.
C8_SummaryCountsLists ==
  pc = "returned" =>
    LET report  == ret.value.v
        summary == report.summary.v
    IN  /\ summary.total_applications = IntV(Len(report.applications.v))
        /\ summary.total_cli_tools = IntV(Len(report.cli_tools.v))
        /\ summary.total_configurations = IntV(Len(report.configurations.v))
        /\ summary.total_vscode_extensions = IntV(Len(report.vscode_extensions.v))

\* A report has been returned whose four lists have different lengths, none
\* of them empty.
C8_Witness ==
  /\ pc = "returned"
  /\ LET report == ret.value.v
     IN  /\ Len(report.applications.v) = 2
         /\ Len(report.cli_tools.v) = 1
         /\ Len(report.configurations.v) = 2
         /\ Len(report.vscode_extensions.v) = 3

\* C9: each of the four probes returns a list on every filesystem state; no
\* failure leaves the probe.
C9_ProbesAreTotal ==
  pc \in { "applications", "cli_tools", "configurations", "vscode_extensions" } =>
    /\ ret.exc = NoError
    /\ ret.value.t = "list"

\* C10: when claude resolves on the search path and its version command
\* exceeds the 5 seconds or cannot be started, the CLI probe completes with
\* exactly one record for claude, whose version begins with "error: ", and the
\* following catalog entry (ollama) is probed: it has its record when it resolves.
C10_VersionFailureDegradesOneTool ==
  LET claude == << "c", "l", "a", "u", "d", "e" >>
      ollama == << "o", "l", "l", "a", "m", "a" >>
      cmd    == << claude, << "-", "-", "v", "e", "r", "s", "i", "o", "n" >> >>
      named(n) == { i \in 1..Len(ret.value.v) : ret.value.v[i].v.name = StrV(n) }
  IN  ( /\ pc = "cli_tools"
        /\ claude \in DOMAIN env.which
        /\ \/ env.procs[cmd].launch # NoError
           \/ env.procs[cmd].seconds > 5 )
      => /\ ret.exc = NoError
         /\ Cardinality(named(claude)) = 1
         /\ \A i \in named(claude) :
              StartsWith(ret.value.v[i].v.version.v, << "e", "r", "r", "o", "r", ":", " " >>)
         /\ ollama \in DOMAIN env.which => Cardinality(named(ollama)) = 1

\* The catalog's CLI entries whose name shutil.which does not resolve.
UnresolvedTools ==
  { i \in 1..Len(env.config.cli_tools) : env.config.cli_tools[i].name \notin DOMAIN env.which }

\* The host where running the version command of an unresolved entry cannot
\* be started and listing any of its config paths fails with an I/O error.
UnreachableForUnresolved ==
  LET tools == { env.config.cli_tools[i] : i \in UnresolvedTools }
      cmds  == { Get(t, "version_cmd", << >>) : t \in tools }
      paths == UNION { { ExpandUser(Get(t, "config_paths", << >>)[j], env.HOME) :
                           j \in 1..Len(Get(t, "config_paths", << >>)) } : t \in tools }
  IN  [ env EXCEPT
          !.procs = [ c \in DOMAIN env.procs \ cmds |-> env.procs[c] ],
          !.fs    = [ p \in paths |-> DirErr(E_OSError) ] @@ env.fs ]

\* C11: for CLI entries that do not resolve on the search path, the CLI probe
\* raises no error, emits no record for them, has as many records as entries
\* resolve, and neither runs their version command nor reads their config
\* paths (its outcome is the same on a host where both would fail).
C11_UnresolvedToolIsSkipped ==
  (pc = "cli_tools" /\ UnresolvedTools # {}) =>
    /\ ret.exc = NoError
    /\ \A i \in UnresolvedTools :
         \A r \in Elements(ret.value) : r.v.name # StrV(env.config.cli_tools[i].name)
    /\ Len(ret.value.v) = Len(env.config.cli_tools) - Cardinality(UnresolvedTools)
    /\ LET e == UnreachableForUnresolved
       IN  ret = CliToolScan(e.config, e.HOME, e.fs, e.which, e.procs)

\* The positions of scan() in the order of its code; "raised" is the exit by
\* an exception.
ScanOrder ==
  << "start", "applications", "cli_tools", "configurations", "vscode_extensions",
     "sanitize", "summary", "returned" >>

Rank(p) == CHOOSE i \in 1..Len(ScanOrder) : ScanOrder[i] = p

ProbeKeys == { "applications", "cli_tools", "configurations", "vscode_extensions" }

\* C12: every step of scan() goes to the next position of the order probes,
\* sanitization, summary, return (or leaves by an exception of a probe), so
\* that each happens once; a probe step adds its list to the report as the
\* probe returned it; the sanitization step is applied to the whole assembled
\* report (metadata and the four lists); the summary step adds nothing but
\* the summary, counted from the sanitized lists, and returns that report.
C12_StepsInOrder ==
  [][ /\ \/ pc' = "raised" /\ pc \in ProbeKeys
         \/ pc' # "raised" /\ pc # "raised" /\ Rank(pc') = Rank(pc) + 1
      /\ (pc \in ProbeKeys /\ pc' # "raised") =>
           /\ pc \notin DOMAIN results.v
           /\ results'.v = results.v @@ (pc :> ret'.value)
      /\ pc = "sanitize" =>
           /\ DOMAIN results.v = { "scan_metadata" } \cup ProbeKeys
           /\ results' = SanitizePathsInOutput(results, real_home, anonymized_home)
      /\ pc = "summary" =>
           /\ DOMAIN results'.v = DOMAIN results.v \cup { "summary" }
           /\ \A k \in DOMAIN results.v : results'.v[k] = results.v[k]
           /\ results'.v.summary =
                DictV([total_applications |-> IntV(Len(results.v.applications.v)),
                       total_cli_tools |-> IntV(Len(results.v.cli_tools.v)),
                       total_configurations |-> IntV(Len(results.v.configurations.v)),
                       total_vscode_extensions |-> IntV(Len(results.v.vscode_extensions.v))])
           /\ ret' = Ok(results')
    ]_vars

\* scan() has returned a report in which sanitization rewrote a path, all
\* four lists holding records.
C12_Witness ==
  /\ pc = "returned"
  /\ \E s \in Strings(arg) : Contains(s, real_home)
  /\ \A k \in ProbeKeys : arg.v[k].v # << >>
  /\ \A k \in DOMAIN arg.v : ret.value.v[k] = SanitizePathsInOutput(arg, real_home, anonymized_home).v[k]

\* The id a catalog extension is matched by: its id; with orName, its name
\* when the id is missing or empty.
MatchId(c, orName) ==
  IF Get(c, "id", << >>) # << >> THEN c.id
  ELSE IF orName THEN Get(c, "name", << >>)
  ELSE << >>

\* The index of the first catalog extension whose matching id, followed by
\* "-", is a case-insensitive prefix of the entry name; 0 when there is none.
\* A matching id that is empty or has no "." never matches.
FirstMatch(entry, wanted, orName) ==
  LET hits == { i \in 1..Len(wanted) :
                  /\ MatchId(wanted[i], orName) # << >>
                  /\ Contains(MatchId(wanted[i], orName), << "." >>)
                  /\ StartsWith(Lower(entry), Lower(MatchId(wanted[i], orName) \o << "-" >>)) }
  IN  IF hits = {} THEN 0 ELSE CHOOSE i \in hits : \A j \in hits : i <= j

\* <<path, extension_id, vscode_type>> of the records first-match-wins gives:
\* one for each entry (from the n-th on) of each listable root that some
\* catalog extension matches, in the order of the roots and of their entries.
RECURSIVE MatchedEntries(_, _, _, _)
MatchedEntries(roots, n, wanted, orName) ==
  IF roots = << >> THEN << >>
  ELSE LET st == Lookup(env.fs, Head(roots)[1])
       IN  IF ~(IsDir(st) /\ st.err = NoError) \/ n > Len(st.entries)
           THEN MatchedEntries(Tail(roots), 1, wanted, orName)
           ELSE LET entry == st.entries[n]
                    k     == FirstMatch(entry, wanted, orName)
                    rest  == MatchedEntries(roots, n + 1, wanted, orName)
                IN  IF k = 0 THEN rest
                    ELSE << << Join(Head(roots)[1], entry), Get(wanted[k], "id", << >>),
                               Head(roots)[2] >> >> \o rest

\* <<path, extension_id, vscode_type>> of the records the extension probe returned.
ReturnedEntries ==
  [ i \in 1..Len(ret.value.v) |->
      << ret.value.v[i].v.path.v, ret.value.v[i].v.extension_id.v,
         ret.value.v[i].v.vscode_type.v >> ]

\* C13 as stated: the records of the extension probe are those of
\* first-match-wins over the catalog order with the catalog id as matching id,
\* at most one for each directory entry; a catalog extension whose id is empty
\* or has no "." never matches.
C13_FirstMatchById ==
  (pc = "vscode_extensions" /\ ret.exc = NoError) =>
    ReturnedEntries = MatchedEntries(ExtensionDirs(env.HOME), 1, env.config.vscode_extensions, FALSE)

\* C13 as amended: the same with the matching id being the id, or the name
\* when the id is missing or empty.
C13_FirstMatchByIdOrName ==
  (pc = "vscode_extensions" /\ ret.exc = NoError) =>
    ReturnedEntries = MatchedEntries(ExtensionDirs(env.HOME), 1, env.config.vscode_extensions, TRUE)

\* The probe has returned a record for an entry that two catalog extensions
\* match (the first, roocode.roocode, gave the record) and one for an entry
\* matched by the name of a catalog extension with an empty id.
C13_Witness ==
  /\ pc = "vscode_extensions"
  /\ ret.exc = NoError
  /\ \E r \in Elements(ret.value) :
       /\ r.v.extension_id.v = << "r", "o", "o", "c", "o", "d", "e", ".", "r", "o", "o", "c", "o", "d", "e" >>
       /\ Contains(r.v.path.v, << "n", "i", "g", "h", "t", "l", "y" >>)
  /\ \E r \in Elements(ret.value) : r.v.extension_id.v = << >>

\* A package manifest that is missing or cannot be parsed: no file, invalid
\* JSON, bytes that are not UTF-8, or JSON that is not an object.
UnparsableManifest(st) ==
  \/ st.kind = "missing"
  \/ /\ st.kind = "file"
     /\ \/ st.err \in { E_JSONDecodeError, E_UnicodeDecodeError }
        \/ st.err = NoError /\ st.data.t # "dict"

\* C14: when the extension roots can be listed and every package manifest is
\* missing or unparsable, the extension probe returns, with a record for
\* every matched entry, and each record carries the name and vendor of its
\* catalog extension and the version "unknown".
C14_UnparsableManifestKeepsRecord ==
  LET roots     == ExtensionDirs(env.HOME)
      wanted    == env.config.vscode_extensions
      manifests == { p \in DOMAIN env.fs : EndsWith(p, L_package_json) }
      expected  == MatchedEntries(roots, 1, wanted, TRUE)
  IN  ( /\ pc = "vscode_extensions"
        /\ \A i \in 1..Len(roots) :
             LET st == Lookup(env.fs, roots[i][1])
             IN  IsDir(st) => st.err \in { NoError, E_PermissionError }
        /\ \A p \in manifests : UnparsableManifest(env.fs[p])
        /\ expected # << >> )
      => /\ ret.exc = NoError
         /\ ReturnedEntries = expected
         /\ \A r \in Elements(ret.value) :
              /\ r.v.version = StrV(L_unknown)
              /\ \E i \in 1..Len(wanted) :
                   /\ r.v.extension_id = StrV(Get(wanted[i], "id", << >>))
                   /\ r.v.name = StrV(Get(wanted[i], "name", Get(wanted[i], "id", << >>)))
                   /\ r.v.vendor = StrV(Get(wanted[i], "vendor", << >>))

\* b has the shape and the values of a, except for str values containing
\* real: same type at every position, same keys for every dict, same length
\* and order for every list, equal non-string leaves, equal strings that do
\* not contain real.
RECURSIVE SameFrame(_, _, _)
SameFrame(a, b, real) ==
  /\ a.t = b.t
  /\ IF a.t = "dict"
     THEN /\ DOMAIN a.v = DOMAIN b.v
          /\ \A k \in DOMAIN a.v : SameFrame(a.v[k], b.v[k], real)
     ELSE IF a.t = "list"
     THEN /\ Len(a.v) = Len(b.v)
          /\ \A i \in 1..Len(a.v) : SameFrame(a.v[i], b.v[i], real)
     ELSE IF a.t = "str"
     THEN Contains(a.v, real) \/ a.v = b.v
     ELSE a = b

\* Every leaf of a report value that is not a str.
RECURSIVE OtherLeaves(_)
OtherLeaves(obj) ==
  IF obj.t = "dict" THEN UNION { OtherLeaves(obj.v[k]) : k \in DOMAIN obj.v }
  ELSE IF obj.t = "list" THEN UNION { OtherLeaves(obj.v[i]) : i \in 1..Len(obj.v) }
  ELSE IF obj.t = "str" THEN {}
  ELSE { obj }

\* C15: the sanitization pass of scan() changes nothing in the report except
\* str values that contain real_home: the keys of every dict, the length and
\* order of every list, every int, bool and None leaf and every str without
\* real_home are as before the pass, and the four evidence lists of the
\* sanitized and of the returned report have the lengths they had before.
C15_SanitizeChangesOnlyHomeStrings ==
  /\ pc = "summary" => SameFrame(arg, results, real_home)
  /\ pc \in { "summary", "returned" } =>
       \A k \in ProbeKeys : Len(results.v[k].v) = Len(arg.v[k].v)

\* C15 witness: a report was sanitized and changed by it, and it holds str
\* values with and without real_home, int, bool and None leaves, and lists of
\* two or more items.
C15_Witness ==
  /\ pc = "summary"
  /\ results # arg
  /\ \E s \in Strings(arg) : Contains(s, real_home)
  /\ \E s \in Strings(arg) : s # << >> /\ ~Contains(s, real_home)
  /\ \A t \in { "int", "bool", "none" } : \E l \in OtherLeaves(arg) : l.t = t
  /\ \E k \in ProbeKeys : Len(arg.v[k].v) >= 2

=============================================================================
